---- MODULE Spec2Model ----
(***************************************************************************)
(* Model of the strands-demo requirement pipeline:                         *)
(*   app/observability.py  Observability (the run tracker and its lock)    *)
(*   app/orchestrator.py   run_requirement_pipeline, _stage, _smart_call   *)
(*   app/runners.py        DockerRunner.run                                *)
(*   app/tools/*.py        the stage functions, as far as the orchestrator *)
(*                         depends on them (signatures, result shapes)     *)
(*                                                                         *)
(* Optional values (Python None / an unbound local / an absent dict key)   *)
(* are sequences of length 0 or 1: None == << >>, Some(x) == <<x>>.        *)
(***************************************************************************)
EXTENDS Integers, Sequences, FiniteSets, TLC

VARIABLES
    \* ---- Observability (app/observability.py) ----
    lockKind,       \* "Lock" (threading.Lock, the code) or "RLock" (see InitRLock)
    lock,           \* "free" or the thread that holds self._lock
    status,         \* self.status
    current_stage,  \* self.current_stage (None or <<name>>)
    timeline,       \* self.timeline
    conversation,   \* self.conversation
    started_at,     \* self.started_at
    run_span,       \* self._run_span: None, <<"open">> or <<"ended">>
    stage_span,     \* self._stage_span: None, <<"open">> or <<"ended">>
    clock,          \* time.time()
    snap,           \* the dict a reader got from snapshot() (None before), and
                    \* what the reader finds in it
    \* ---- a caller of the tracker's public API ----
    cpc,            \* "idle", or where the caller is inside start_run()/stage_end()
    ccall,          \* the caller's stage_end or finish_run call, in progress or
                    \* just completed (None after any other call)
    \* ---- run_requirement_pipeline (app/orchestrator.py) ----
    pc,             \* position of the pipeline thread
    runs,           \* number of calls of run_requirement_pipeline so far
    stream,         \* parameter stream
    verbose,        \* local verbose
    req,            \* local req (None until load_requirement returned)
    ws, plan, changes, applied, test_result, commit_info, pr_url,
    repo, branch,   \* locals; None while unbound ('branch' in locals())
    timeline_local, \* local timeline of run_requirement_pipeline
    out,            \* local out of _stage
    attempt,        \* _smart_call: 0 in the primary call, i in fallback #i
    exc,            \* the exception in flight (None or <<exception>>)
    result,         \* the dict returned (None until the call returned)
    trace,          \* history: the stage bodies started/returned/raised in this run
    sig,            \* _smart_call: sig = inspect.signature(target) of the callee fn
                    \* when fn is not one of the five stage functions
    kwargs,         \* _smart_call: the keywords of its latest call fn(**kw), name
                    \* to value (None is Python's None); None while fn was not called
    agent,          \* _smart_call's local agent = runtime.get_agent(): None while
                    \* not read in this call, else <<whether an Agent is registered>>
    GITHUB_TOKEN,   \* os.getenv("GITHUB_TOKEN") as line 230 found it: None while
                    \* not read in this run, else <<whether it is set and not empty>>
    \* ---- DockerRunner.run (app/runners.py), inside build_and_test ----
    container,      \* local container of run(): None or <<"c">>
    docker,         \* the daemon's view of this run's container
    removes,        \* number of successful container.remove() calls in this run()
    wait_result,    \* what container.wait() did in this run(): None, or <<r>> with
                    \* r.timed_out, or r.has_code and r.StatusCode (the dict returned)
    cbase, hbase,   \* self.cbase (a string), self.hbase (None or <<string>>)
    repo_dir,       \* parameter repo_dir of run()
    host_repo_dir,  \* local host_repo_dir of run(): None while unbound
    logs,           \* local logs of run(): its text and the hint appended to it
    \* ---- apply_changes (app/tools/code_tools.py) ----
    fs,             \* the file system: what is at each absolute path
    fs0,            \* the file system before the first call of apply_changes
    ac,             \* the call in progress: edits, the index k of the edit the
                    \* loop is at, and the lists applied, deleted, skipped
    done,           \* the calls completed: the dict returned and the file system then
    \* ---- generate_changes (app/tools/code_tools.py) ----
    gen             \* the model's output (the edits of its JSON), result (None, or
                    \* the validated _FileEditListModel), and the list cleaned

trackerVars == <<lock, status, current_stage, timeline, conversation, started_at,
                 run_span, stage_span, snap>>
clientVars == <<cpc, ccall>>
pathVars == <<cbase, hbase, repo_dir, host_repo_dir, logs>>
runnerVars == <<container, docker, removes, wait_result, pathVars>>
localVars == <<stream, verbose, req, ws, plan, changes, applied, test_result,
               commit_info, pr_url, repo, branch, timeline_local, out, attempt,
               exc, result, trace>>
envVars == <<agent, GITHUB_TOKEN>>
callVars == <<sig, kwargs>>
applyVars == <<fs, fs0, ac, done, gen>>
vars == <<lockKind, trackerVars, clock, clientVars, pc, runs, localVars, envVars,
          callVars, runnerVars, applyVars>>

None == << >>
Some(x) == <<x>>

\* ------------------------------------------------------------------ bounds
MaxClock == 1          \* time.time() takes the values 0..MaxClock
MaxRuns == 1           \* calls of run_requirement_pipeline in one behaviour
MaxTimeline == 1       \* timeline entries an API caller appends
MaxConversation == 1   \* messages an API caller appends

\* ------------------------------------------------------------ Observability
MessageLimit == 2048   \* add_message: the length a span event's content is cut to
PreviewLimit == 1024   \* stage_end: the length a span event's preview is cut to

\* `with self._lock:` entered by thread t. A threading.Lock is not re-entrant:
\* a thread that already holds it blocks like any other thread.
CanAcquire(t) == lock = "free" \/ (lockKind = "RLock" /\ lock = t)

\* time.time() may advance between any two steps.
Tick ==
    /\ clock < MaxClock
    /\ clock' = clock + 1
    /\ UNCHANGED <<lockKind, trackerVars, clientVars, pc, runs, localVars, envVars,
                   callVars, runnerVars, applyVars>>

\* span.end() on a span that is not None
EndSpan(span) == IF span = None THEN None ELSE Some("ended")

\* snapshot() under the lock: status, current_stage and started_at by value,
\* list(self.timeline) and list(self.conversation): new lists of the same dicts.
\* S.timeline and S.conversation are the lists as they were copied; while
\* S.detached is None the dicts of S's timeline list are the dicts of
\* self.timeline at the same positions (self.timeline is only appended to).
snapshot_value ==
    [status |-> status, current_stage |-> current_stage, timeline |-> timeline,
     conversation |-> conversation, started_at |-> started_at, detached |-> None]

\* what a reader of S finds in S["timeline"]: the dicts as they are now
EntriesOf(S) ==
    IF S.detached = None THEN SubSeq(timeline, 1, Len(S.timeline))
    ELSE S.detached[1]

\* reset() binds self.timeline to a new list: the dicts S holds are in no
\* list of the tracker any more and keep the values they have
Detached(s) ==
    IF s = None THEN None ELSE Some([s[1] EXCEPT !.detached = Some(EntriesOf(s[1]))])

snapshot(t) ==
    /\ CanAcquire(t)
    /\ snap' = Some(snapshot_value)
    /\ UNCHANGED <<lock, status, current_stage, timeline, conversation, started_at,
                   run_span, stage_span>>

\* Observability.reset, the body under the lock
reset_state ==
    [status |-> "idle", current_stage |-> None, timeline |-> << >>,
     conversation |-> << >>, started_at |-> None]

\* Observability.start_run up to the call self.reset(): the thread takes the
\* lock and ends the spans of a previous run (the fields keep the ended spans).
start_run_enter(t) ==
    /\ CanAcquire(t)
    /\ lock' = t
    /\ stage_span' = EndSpan(stage_span)
    /\ run_span' = EndSpan(run_span)
    /\ UNCHANGED <<status, current_stage, timeline, conversation, started_at, snap>>

\* Observability.start_run from self.reset() on: reset() enters
\* `with self._lock:` again on the thread that holds it, then start_run sets
\* started_at and status, opens the run span and leaves its own `with` block.
\* start_run_reset without line 124
start_run_reset_idle(t) ==
    /\ lock = t
    /\ CanAcquire(t)
    /\ lock' = "free"
    /\ current_stage' = reset_state.current_stage
    /\ timeline' = reset_state.timeline
    /\ conversation' = reset_state.conversation
    /\ started_at' = Some(clock)
    /\ status' = reset_state.status
    /\ run_span' = Some("open")
    /\ snap' = Detached(snap)
    /\ UNCHANGED stage_span

start_run_reset(t) ==
    /\ lock = t
    /\ CanAcquire(t)
    /\ lock' = "free"
    /\ current_stage' = reset_state.current_stage
    /\ timeline' = reset_state.timeline
    /\ conversation' = reset_state.conversation
    /\ started_at' = Some(clock)
    /\ status' = "running"
    /\ run_span' = Some("open")
    /\ snap' = Detached(snap)
    /\ UNCHANGED stage_span

\* finish_run without line 136
finish_run_keeping_status(t, st) ==
    /\ CanAcquire(t)
    /\ current_stage' = None
    /\ stage_span' = None
    /\ run_span' = None
    /\ UNCHANGED <<lock, status, timeline, conversation, started_at, snap>>

finish_run(t, st) ==
    /\ CanAcquire(t)
    /\ status' = st
    /\ current_stage' = None
    /\ stage_span' = None
    /\ run_span' = None
    /\ UNCHANGED <<lock, timeline, conversation, started_at, snap>>

\* the dict appended by stage_start; end, duration and preview are absent keys
\* until stage_end. by is no key of the dict: it records the thread whose
\* stage_start appended the entry.
NewEntry(t, name) ==
    [stage |-> name, start |-> clock, end |-> None, duration |-> None,
     preview |-> None, by |-> t]

\* stage_start binding self.timeline to a list of the new entry alone
stage_start_alone(t, name) ==
    /\ CanAcquire(t)
    /\ current_stage' = Some(name)
    /\ timeline' = <<NewEntry(t, name)>>
    /\ stage_span' = Some("open")
    /\ UNCHANGED <<lock, status, conversation, started_at, run_span, snap>>

stage_start(t, name) ==
    /\ CanAcquire(t)
    /\ current_stage' = Some(name)
    /\ timeline' = Append(timeline, NewEntry(t, name))
    /\ stage_span' = Some("open")
    /\ UNCHANGED <<lock, status, conversation, started_at, run_span, snap>>

\* EndEntry with the end time taken for the duration
EndEntryDurationFromZero(info, preview) ==
    [info EXCEPT !.end = Some(clock),
                 !.duration = Some(clock),
                 !.preview = IF preview # None THEN preview ELSE @]

\* the last timeline entry as stage_end(name, preview) leaves it; stage_end
\* below is the whole call in one step, for a caller whose tracker no other
\* thread reads meanwhile (the two halves are stage_end_enter, stage_end_rest)
EndEntry(info, preview) ==
    [info EXCEPT !.end = Some(clock),
                 !.duration = Some(clock - info.start),
                 !.preview = IF preview # None THEN preview ELSE @]

\* stage_end without line 213
stage_end_keeping_current(t, name, preview) ==
    /\ CanAcquire(t)
    /\ timeline' =
         IF timeline # << >> /\ timeline[Len(timeline)].stage = name
         THEN [timeline EXCEPT ![Len(timeline)] = EndEntry(@, preview)]
         ELSE timeline
    /\ stage_span' = None
    /\ UNCHANGED <<lock, status, current_stage, conversation, started_at, run_span,
                   snap>>

\* stage_end closing the last entry only when the calling thread appended it
stage_end_own(t, name, preview) ==
    /\ CanAcquire(t)
    /\ timeline' =
         IF timeline # << >> /\ timeline[Len(timeline)].stage = name
            /\ timeline[Len(timeline)].by = t
         THEN [timeline EXCEPT ![Len(timeline)] = EndEntry(@, preview)]
         ELSE timeline
    /\ stage_span' = None
    /\ current_stage' = None
    /\ UNCHANGED <<lock, status, conversation, started_at, run_span, snap>>

stage_end(t, name, preview) ==
    /\ CanAcquire(t)
    /\ timeline' =
         IF timeline # << >> /\ timeline[Len(timeline)].stage = name
         THEN [timeline EXCEPT ![Len(timeline)] = EndEntry(@, preview)]
         ELSE timeline
    /\ stage_span' = None
    /\ current_stage' = None
    /\ UNCHANGED <<lock, status, conversation, started_at, run_span, snap>>

\* stage_end_enter without the test of the name
stage_end_enter_any_name(t, name) ==
    /\ CanAcquire(t)
    /\ lock' = t
    /\ timeline' =
         IF timeline # << >>
         THEN [timeline EXCEPT ![Len(timeline)].end = Some(clock)]
         ELSE timeline
    /\ UNCHANGED <<status, current_stage, conversation, started_at, run_span,
                   stage_span, snap>>

\* stage_end, lines 189-193: the thread takes the lock, reads the time and,
\* when the last entry has this name, stores info["end"]
stage_end_enter(t, name) ==
    /\ CanAcquire(t)
    /\ lock' = t
    /\ timeline' =
         IF timeline # << >> /\ timeline[Len(timeline)].stage = name
         THEN [timeline EXCEPT ![Len(timeline)].end = Some(clock)]
         ELSE timeline
    /\ UNCHANGED <<status, current_stage, conversation, started_at, run_span,
                   stage_span, snap>>

\* stage_end_rest without the test of the name
stage_end_rest_any_name(t, name, preview, end_ts) ==
    /\ lock = t
    /\ lock' = "free"
    /\ timeline' =
         IF timeline # << >>
         THEN LET info == timeline[Len(timeline)] IN
              [timeline EXCEPT ![Len(timeline)] =
                  [info EXCEPT !.duration = Some(end_ts - info.start),
                               !.preview = IF preview # None THEN preview ELSE @]]
         ELSE timeline
    /\ stage_span' = None
    /\ current_stage' = None
    /\ UNCHANGED <<status, conversation, started_at, run_span, snap>>

\* stage_end, lines 194-214, by the thread that holds the lock: duration and
\* preview of the entry, the span, current_stage; the lock is released
stage_end_rest(t, name, preview, end_ts) ==
    /\ lock = t
    /\ lock' = "free"
    /\ timeline' =
         IF timeline # << >> /\ timeline[Len(timeline)].stage = name
         THEN LET info == timeline[Len(timeline)] IN
              [timeline EXCEPT ![Len(timeline)] =
                  [info EXCEPT !.duration = Some(end_ts - info.start),
                               !.preview = IF preview # None THEN preview ELSE @]]
         ELSE timeline
    /\ stage_span' = None
    /\ current_stage' = None
    /\ UNCHANGED <<status, conversation, started_at, run_span, snap>>

add_message(t, role, content) ==
    /\ CanAcquire(t)
    /\ conversation' = Append(conversation,
                              [role |-> role, content |-> content, time |-> clock])
    /\ UNCHANGED <<lock, status, current_stage, timeline, started_at, run_span,
                   stage_span, snap>>


\* ------------------------------------------------- a caller of the tracker
\* The tracker is a public object: these are its methods called from a thread
\* other than the pipeline's (fastapi_app.py reads it; any holder of the
\* singleton may write it).
ClientStageNames == {"plan_changes", "build_and_test"}

\* A text is kept by its length, and whether it ends in the truncation mark.
Text(n) == [len |-> n, cut |-> FALSE]
\* the messages of the caller: a short text and a long one; its previews: none
\* or a long one (long: longer than the limits of lines 204 and 225)
ClientTexts == {Text(5), Text(5000)}
ClientPreviews == {None, Some(Text(5000))}
ClientFrame == UNCHANGED <<lockKind, clock, pc, runs, localVars, envVars, callVars,
                           runnerVars, applyVars>>

\* a call in progress: its arguments and the time it read at its first line
Call(op, name, preview) ==
    [op |-> op, name |-> name, preview |-> preview, end_ts |-> clock]

\* a call that returned: its locals are gone
Completed(op, name) ==
    [op |-> op, name |-> name, preview |-> None, end_ts |-> 0]

ClientStageStart ==
    /\ cpc = "idle"
    /\ Len(timeline) < MaxTimeline
    /\ \E name \in ClientStageNames : stage_start("client", name)
    /\ ccall' = None
    /\ UNCHANGED cpc
    /\ ClientFrame

\* stage_end up to line 193; the thread may be descheduled before line 194
ClientStageEnd ==
    /\ cpc = "idle"
    /\ \E name \in ClientStageNames, preview \in ClientPreviews :
          /\ stage_end_enter("client", name)
          /\ ccall' = Some(Call("stage_end", name, preview))
    /\ cpc' = "stage_end.duration"
    /\ ClientFrame

\* stage_end from line 194 on
ClientStageEndRest ==
    /\ cpc = "stage_end.duration"
    /\ stage_end_rest("client", ccall[1].name, ccall[1].preview, ccall[1].end_ts)
    /\ cpc' = "idle"
    /\ ccall' = Some(Completed("stage_end", ccall[1].name))
    /\ ClientFrame

ClientAddMessage ==
    /\ cpc = "idle"
    /\ Len(conversation) < MaxConversation
    /\ \E content \in ClientTexts : add_message("client", "user", content)
    /\ ccall' = None
    /\ UNCHANGED cpc
    /\ ClientFrame

ClientFinishRun ==
    /\ cpc = "idle"
    /\ \E st \in {"success", "error"} :
          /\ finish_run("client", st)
          /\ ccall' = Some(Completed("finish_run", st))
    /\ UNCHANGED cpc
    /\ ClientFrame

ClientStartRun ==
    /\ cpc = "idle"
    /\ start_run_enter("client")
    /\ cpc' = "start_run.reset"
    /\ ccall' = None
    /\ ClientFrame

ClientStartRunReset ==
    /\ cpc = "start_run.reset"
    /\ start_run_reset("client")
    /\ cpc' = "idle"
    /\ UNCHANGED ccall
    /\ ClientFrame

\* another thread (GET /status, fastapi_app.py) calls snapshot() and keeps
\* the dict it returns
ReaderSnapshot ==
    /\ snapshot("reader")
    /\ UNCHANGED clientVars
    /\ ClientFrame

\* ------------------------------------------------ run_requirement_pipeline
Idle == <<"run", "idle">>
PipeFrame == UNCHANGED <<lockKind, clock, clientVars, envVars, callVars, applyVars>>

\* run_requirement_pipeline(requirement_source, stream): lines 145-149
P_Call ==
    /\ pc = Idle
    /\ runs < MaxRuns
    /\ runs' = runs + 1
    /\ \E s \in BOOLEAN, env_verbose \in BOOLEAN :
          /\ stream' = s
          /\ verbose' = (env_verbose \/ s)
    /\ req' = None /\ ws' = None /\ plan' = None /\ changes' = None
    /\ applied' = None /\ test_result' = None /\ commit_info' = None
    /\ pr_url' = None /\ repo' = None /\ branch' = None
    /\ timeline_local' = << >> /\ out' = None /\ attempt' = 0 /\ exc' = None
    /\ result' = None /\ trace' = << >>
    /\ agent' = None /\ GITHUB_TOKEN' = None /\ kwargs' = None
    /\ pc' = <<"run", "start_run">>
    /\ UNCHANGED <<trackerVars, runnerVars, sig>>
    /\ UNCHANGED <<lockKind, clock, clientVars, applyVars>>

\* observability.start_run(), line 182
P_StartRun ==
    /\ pc = <<"run", "start_run">>
    /\ start_run_enter("pipeline")
    /\ pc' = <<"run", "start_run.reset">>
    /\ UNCHANGED <<runs, localVars, runnerVars>>
    /\ PipeFrame

P_StartRunReset ==
    /\ pc = <<"run", "start_run.reset">>
    /\ start_run_reset("pipeline")
    /\ pc' = <<"run", "load">>
    /\ UNCHANGED <<runs, localVars, runnerVars>>
    /\ PipeFrame


\* load_requirement (app/tools/requirements_tool.py): what it returns or raises.
\* A Requirement is kept as the two facts the orchestrator branches on:
\*   create_pr  : req.github and req.github.create_pr
\*   branch_ok  : req.branch.branch_name() returns (name_template formats)
Requirements == [create_pr : BOOLEAN, branch_ok : BOOLEAN]
LoadErrors ==
    { [where |-> "requirements_tool.safe_load",
       message |-> "Top-level YAML is not a mapping", validation_errors |-> << >>],
      [where |-> "models.Requirement",
       message |-> "Requirement validation failed",
       validation_errors |-> <<"field error">>],
      [where |-> "requirements_tool.load_requirement",
       message |-> "unexpected error", validation_errors |-> << >>] }

\* timeline if verbose else None
TimelineOutAlways == Some(timeline_local)
TimelineOut == IF verbose THEN Some(timeline_local) ELSE None

\* LoadErrorResult without the details of the load error
LoadErrorResultNoDetails(e) ==
    [status |-> "error", where |-> Some("orchestrator"), message |-> Some(e.message),
     validation_errors |-> Some(<< >>),
     branch |-> None, repo |-> None, pr_url |-> None, test_exit_code |-> None,
     test_logs |-> None, applied |-> None, elapsed_seconds |-> "elapsed",
     timeline |-> TimelineOut]

\* the dict returned at lines 190-203
LoadErrorResult(e) ==
    [status |-> "error", where |-> Some(e.where), message |-> Some(e.message),
     validation_errors |-> Some(e.validation_errors),
     branch |-> None, repo |-> None, pr_url |-> None, test_exit_code |-> None,
     test_logs |-> None, applied |-> None, elapsed_seconds |-> "elapsed",
     timeline |-> TimelineOut]

\* lines 183-186
P_Load ==
    /\ pc = <<"run", "load">>
    /\ \/ \E r \in Requirements :
             /\ req' = Some(r)
             /\ exc' = None
             /\ pc' = <<"run", "add_message">>
       \/ \E e \in LoadErrors :
             /\ exc' = Some(e)
             /\ req' = None
             /\ pc' = <<"load_error", "add_message">>
    /\ UNCHANGED <<stream, verbose, ws, plan, changes, applied, test_result,
                   commit_info, pr_url, repo, branch, timeline_local, out,
                   attempt, result, trace>>
    /\ UNCHANGED <<trackerVars, runs, runnerVars>>
    /\ PipeFrame

\* lines 187-188
P_LoadErrorMessage ==
    /\ pc = <<"load_error", "add_message">>
    /\ add_message("pipeline", "error", <<"load_requirement failed", exc[1].message>>)
    /\ pc' = <<"load_error", "finish_run">>
    /\ UNCHANGED <<runs, localVars, runnerVars>>
    /\ PipeFrame

\* lines 189-203
P_LoadErrorReturn ==
    /\ pc = <<"load_error", "finish_run">>
    /\ finish_run("pipeline", "error")
    /\ result' = Some(LoadErrorResult(exc[1]))
    /\ pc' = Idle
    /\ UNCHANGED <<stream, verbose, req, ws, plan, changes, applied, test_result,
                   commit_info, pr_url, repo, branch, timeline_local, out, attempt,
                   exc, trace>>
    /\ UNCHANGED <<runs, runnerVars>>
    /\ PipeFrame

\* lines 206-210
P_StartMessage ==
    /\ pc = <<"run", "add_message">>
    /\ add_message("pipeline", "system", <<"start", stream>>)
    /\ pc' = <<"prepare_workspace", "stage_start">>
    /\ UNCHANGED <<runs, localVars, runnerVars>>
    /\ PipeFrame


\* ----------------------------------------------------------- the stages
\* The five stages run through _stage, in the order of lines 213-220.
StageOrder == <<"prepare_workspace", "plan_changes", "generate_changes",
                "apply_changes", "build_and_test">>
Stages == {StageOrder[i] : i \in 1..Len(StageOrder)}
StageIndex(s) == CHOOSE i \in 1..Len(StageOrder) : StageOrder[i] = s

\* The stages whose body is one call of an external collaborator (git, the
\* LLM, the file system); build_and_test runs DockerRunner.run, modelled below.
AtomicStages == (Stages \cup {"fn"}) \ {"build_and_test"}

\* the signature of a callee: its declared non-variadic parameters and those
\* of them without a default
Signature(params, required) == [params |-> params, required |-> required]
NoSignature == Signature({}, {})

\* the declared parameters of the stage functions (app/tools/*.py)
Params(s) ==
    CASE s = "prepare_workspace" -> {"run_id", "repo_url", "branch_name", "base_branch"}
      [] s = "plan_changes"      -> {"tool_context", "req", "repo_dir"}
      [] s = "generate_changes"  -> {"tool_context", "req", "plan", "repo_dir"}
      [] s = "apply_changes"     -> {"repo_dir", "edits"}
      [] s = "build_and_test"    -> {"req", "repo_dir"}
      [] s = "fn"                -> sig.params

\* the parameters without a default
Required(s) == IF s = "fn" THEN sig.required ELSE Params(s) \ {"base_branch"}

\* the keys of mapping in _value_for
MappingNames ==
    {"requirement", "req", "r", "run_id", "rid", "ws", "workspace", "repo_url",
     "repo_dir", "workdir", "cwd", "root", "path", "plan", "plan_context",
     "changes", "diff", "edits", "patches", "test_result", "tests_result",
     "base_branch", "default_branch", "branch_name", "feature_branch", "stream"}

\* _value_for lines 41-42: run_id and repo_dir
ctx_repo_dir == IF ws = None THEN None ELSE Some("repo_dir")

\* _value_for lines 43-56: mapping, each key with the value it holds (None is
\* Python's None)
mapping ==
    [name \in MappingNames |->
       CASE name \in {"requirement", "req", "r"} -> Some("req")
         [] name \in {"run_id", "rid"} -> Some("run_id")
         [] name \in {"ws", "workspace"} -> ws
         [] name = "repo_url" -> Some("repo.url")
         [] name \in {"repo_dir", "workdir", "cwd", "root", "path"} -> ctx_repo_dir
         [] name \in {"plan", "plan_context"} -> plan
         [] name \in {"changes", "diff", "edits", "patches"} -> changes
         [] name \in {"test_result", "tests_result"} -> test_result
         [] name \in {"base_branch", "default_branch"} -> Some("default_branch")
         [] name \in {"branch_name", "feature_branch"} -> Some("branch_name")
         [] name = "stream" -> Some(IF stream THEN "True" ELSE "False")]

\* _value_for line 57: mapping.get(name, inspect._empty)
value_for(name) ==
    IF name \in DOMAIN mapping
    THEN [empty |-> FALSE, val |-> mapping[name]]
    ELSE [empty |-> TRUE, val |-> None]

\* a dict from its keys and the value of each
Dict(keys, val(_)) == [k \in keys |-> val(k)]

\* the keywords of call number i of _smart_call: the primary kwargs (lines
\* 79-98, with an agent registered) and the three fallbacks (122-128)
Kwargs(s, i) ==
    LET primary(p) == IF p = "tool_context" THEN Some("tool_context")
                      ELSE value_for(p).val
        shape(p) == CASE p \in {"requirement", "req"} -> Some("req")
                      [] p \in {"repo_dir", "cwd"} -> ctx_repo_dir
                      [] p = "plan" -> plan
                      [] p = "changes" -> changes
                      [] p = "test_result" -> test_result
                      [] p = "stream" -> Some(IF stream THEN "True" ELSE "False")
        with_stream(kw) == IF "stream" \in Params(s) THEN kw \cup {"stream"} ELSE kw
    IN CASE i = 0 -> Dict({p \in Params(s) : ~value_for(p).empty}
                              \cup (Params(s) \cap {"tool_context"}), primary)
         [] i = 1 -> Dict(with_stream({"requirement", "repo_dir"}), shape)
         [] i = 2 -> Dict(with_stream({"req", "cwd"}), shape)
         [] i = 3 -> Dict(with_stream({"requirement", "repo_dir", "plan", "changes",
                                       "test_result"}), shape)

\* Python binds fn(**kw): no unexpected keyword, no required parameter missing;
\* otherwise the call raises TypeError before the body runs.
Binds(s, kw) == DOMAIN kw \subseteq Params(s) /\ Required(s) \subseteq DOMAIN kw

\* the exception a stage body raises
StageError(s) == [type |-> "RuntimeError", message |-> <<s, "failed">>]
StageTypeError(s) == [type |-> "TypeError", message |-> <<s, "bad operand">>]
CouldNotMatch(s) ==
    [type |-> "TypeError",
     message |-> <<"Could not match arguments for tool", s, "Signature",
                   Signature(Params(s), Required(s))>>]
NoAgent == [type |-> "TypeError", message |-> <<"No Agent available to build tool_context">>]
BranchNameError == [type |-> "KeyError", message |-> <<"branch name_template">>]

\* the events recorded in trace
Started(s) == [ev |-> "start", stage |-> s, exc |-> None]
Returned(s) == [ev |-> "return", stage |-> s, exc |-> None]
Raised(s, e) == [ev |-> "raise", stage |-> s, exc |-> Some(e)]

StageFrame == UNCHANGED <<stream, verbose, req, ws, plan, changes, applied,
                          test_result, commit_info, pr_url, repo, branch, result>>

\* _stage lines 152-157: observability.stage_start(name)
P_StageStart(s) ==
    /\ pc = <<s, "stage_start">>
    /\ stage_start("pipeline", s)
    /\ pc' = <<s, "add_message">>
    /\ UNCHANGED <<runs, localVars, runnerVars>>
    /\ PipeFrame

\* _stage line 157: observability.add_message("stage", f"{name} started"); out = None
P_StageStartedMessage(s) ==
    /\ pc = <<s, "add_message">>
    /\ add_message("pipeline", "stage", <<s, "started">>)
    /\ out' = None
    /\ attempt' = 0
    /\ pc' = <<s, "smart_call">>
    /\ UNCHANGED <<timeline_local, exc, trace>>
    /\ StageFrame
    /\ UNCHANGED <<runs, runnerVars>>
    /\ PipeFrame

\* P_SmartCall passing a tool_context whether or not an Agent is registered
P_SmartCallPlaceholder(s) ==
    /\ pc = <<s, "smart_call">>
    /\ \E registered \in BOOLEAN :
          IF ~req[1].branch_ok
          THEN /\ exc' = Some(BranchNameError) /\ pc' = <<s, "stage_end">>
               /\ agent' = None /\ kwargs' = None
          ELSE /\ agent' = IF "tool_context" \in Params(s)
                           THEN Some(registered) ELSE None
               /\ kwargs' = Some(Kwargs(s, 0))
               /\ IF Binds(s, Kwargs(s, 0))
                  THEN exc' = None /\ pc' = <<s, "body">>
                  ELSE exc' = None /\ pc' = <<s, "fallback">>
    /\ UNCHANGED <<timeline_local, out, attempt, trace, GITHUB_TOKEN, sig>>
    /\ StageFrame
    /\ UNCHANGED <<trackerVars, runs, runnerVars>>
    /\ UNCHANGED <<lockKind, clock, clientVars, applyVars>>

\* _smart_call lines 75-111: build the kwargs and make the primary call.
\* _value_for evaluates req.branch.branch_name() for every parameter; a
\* tool_context parameter needs runtime.get_agent() (read here).
P_SmartCall(s) ==
    /\ pc = <<s, "smart_call">>
    /\ \E registered \in BOOLEAN :
          IF ~req[1].branch_ok
          THEN /\ exc' = Some(BranchNameError) /\ pc' = <<s, "stage_end">>
               /\ agent' = None /\ kwargs' = None
          ELSE /\ agent' = IF "tool_context" \in Params(s)
                           THEN Some(registered) ELSE None
               /\ IF "tool_context" \in Params(s) /\ ~registered
                  THEN /\ exc' = Some(NoAgent) /\ pc' = <<s, "stage_end">>
                       /\ kwargs' = None
                  ELSE /\ kwargs' = Some(Kwargs(s, 0))
                       /\ IF Binds(s, Kwargs(s, 0))
                          THEN exc' = None /\ pc' = <<s, "body">>
                          ELSE exc' = None /\ pc' = <<s, "fallback">>
    /\ UNCHANGED <<timeline_local, out, attempt, trace, GITHUB_TOKEN, sig>>
    /\ StageFrame
    /\ UNCHANGED <<trackerVars, runs, runnerVars>>
    /\ UNCHANGED <<lockKind, clock, clientVars, applyVars>>

\* what the body of stage s returns
StageValue(s) == Some(<<s, "result">>)

\* The body of a stage function, called by fn(**kwargs): it returns, raises,
\* or raises a TypeError of its own, which _smart_call catches (line 110 or 133).
P_Body(s) ==
    /\ pc = <<s, "body">>
    /\ s \in AtomicStages
    /\ \E o \in {"return", "raise", "raise TypeError"} :
          CASE o = "return" ->
                 /\ out' = StageValue(s)
                 /\ exc' = None
                 /\ trace' = trace \o << Started(s), Returned(s) >>
                 /\ pc' = <<s, "stage_end">>
            [] o = "raise" ->
                 /\ out' = None
                 /\ exc' = Some(StageError(s))
                 /\ trace' = trace \o << Started(s), Raised(s, StageError(s)) >>
                 /\ pc' = <<s, "stage_end">>
            [] o = "raise TypeError" ->
                 /\ out' = None
                 /\ exc' = Some(StageTypeError(s))
                 /\ trace' = trace \o << Started(s), Raised(s, StageTypeError(s)) >>
                 /\ pc' = <<s, "fallback">>
    /\ UNCHANGED <<timeline_local, attempt>>
    /\ StageFrame
    /\ UNCHANGED <<trackerVars, runs, runnerVars>>
    /\ PipeFrame

\* _smart_call lines 110-136: after a TypeError, the next keyword shape that
\* binds is called; with none left the invoker raises its own TypeError.
NextBinding(s, i) == {j \in (i + 1)..3 : Binds(s, Kwargs(s, j))}

\* P_Fallback trying the keyword shapes from the last to the first
P_FallbackLastFirst(s) ==
    /\ pc = <<s, "fallback">>
    /\ LET left == {j \in 1..3 : Binds(s, Kwargs(s, j)) /\ (attempt = 0 \/ j < attempt)}
       IN IF left # {}
          THEN LET j == CHOOSE j \in left : \A k \in left : j >= k
               IN /\ attempt' = j
                  /\ kwargs' = Some(Kwargs(s, j))
                  /\ exc' = None
                  /\ pc' = <<s, "body">>
          ELSE /\ attempt' = 3
               /\ kwargs' = Some(Kwargs(s, 3))
               /\ exc' = Some(CouldNotMatch(s))
               /\ pc' = <<s, "stage_end">>
    /\ UNCHANGED <<timeline_local, out, trace>>
    /\ StageFrame
    /\ UNCHANGED <<trackerVars, runs, runnerVars, envVars, sig>>
    /\ UNCHANGED <<lockKind, clock, clientVars, applyVars>>

P_Fallback(s) ==
    /\ pc = <<s, "fallback">>
    /\ IF NextBinding(s, attempt) # {}
       THEN LET j == CHOOSE j \in NextBinding(s, attempt) :
                        \A k \in NextBinding(s, attempt) : j <= k
            IN /\ attempt' = j
               /\ kwargs' = Some(Kwargs(s, j))
               /\ exc' = None
               /\ pc' = <<s, "body">>
       ELSE /\ attempt' = 3
            /\ kwargs' = Some(Kwargs(s, 3))
            /\ exc' = Some(CouldNotMatch(s))
            /\ pc' = <<s, "stage_end">>
    /\ UNCHANGED <<timeline_local, out, trace>>
    /\ StageFrame
    /\ UNCHANGED <<trackerVars, runs, runnerVars, envVars, sig>>
    /\ UNCHANGED <<lockKind, clock, clientVars, applyVars>>


\* the stages that return a dict (prepare_workspace, apply_changes, build_and_test)
ReturnsDict(s) == s \in {"prepare_workspace", "apply_changes", "build_and_test"}

\* _stage lines 168-174: preview of out, computed when verbose
Preview(s) ==
    IF verbose /\ out # None /\ ReturnsDict(s) THEN Some(<<s, "preview">>) ELSE None

\* _stage lines 163-178 (finally): timeline.append when verbose, then
\* observability.stage_end(name, preview)
P_StageEnd(s) ==
    /\ pc = <<s, "stage_end">>
    /\ timeline_local' =
         IF verbose
         THEN Append(timeline_local,
                     [stage |-> s, duration_s |-> Some("dur"), preview |-> Preview(s)])
         ELSE timeline_local
    /\ stage_end("pipeline", s, Preview(s))
    /\ pc' = <<s, "completed">>
    /\ UNCHANGED <<out, attempt, exc, trace>>
    /\ StageFrame
    /\ UNCHANGED <<runs, runnerVars>>
    /\ PipeFrame

\* AfterStage with the next stage skipped
AfterStageSkipping(s) ==
    IF StageIndex(s) + 1 < Len(StageOrder)
    THEN <<StageOrder[StageIndex(s) + 2], "stage_start">>
    ELSE <<"commit_and_push", "call">>

\* the position after stage s returned (lines 213-222)
AfterStage(s) ==
    IF StageIndex(s) < Len(StageOrder)
    THEN <<StageOrder[StageIndex(s) + 1], "stage_start">>
    ELSE <<"commit_and_push", "call">>

\* P_StageCompleted going to finish_run after a build that failed
P_StageCompletedStopping(s) ==
    /\ pc = <<s, "completed">>
    /\ add_message("pipeline", "stage", <<s, "completed">>)
    /\ IF exc # None
       THEN /\ pc' = <<"except", "add_message">>
            /\ UNCHANGED <<ws, plan, changes, applied, test_result, repo, branch>>
       ELSE /\ pc' = IF s = "build_and_test" /\ out[1].status # 0
                     THEN <<"finish", "finish_run">> ELSE AfterStage(s)
            /\ ws' = IF s = "prepare_workspace" THEN out ELSE ws
            /\ repo' = IF s = "prepare_workspace" THEN Some("repo.url") ELSE repo
            /\ branch' = IF s = "prepare_workspace" THEN Some("branch_name") ELSE branch
            /\ plan' = IF s = "plan_changes" THEN out ELSE plan
            /\ changes' = IF s = "generate_changes" THEN out ELSE changes
            /\ applied' = IF s = "apply_changes" THEN out ELSE applied
            /\ test_result' = IF s = "build_and_test" THEN out ELSE test_result
    /\ UNCHANGED <<stream, verbose, req, commit_info, pr_url, timeline_local, out,
                   attempt, exc, result, trace>>
    /\ UNCHANGED <<runs, runnerVars>>
    /\ PipeFrame

\* _stage line 179, then the return of _stage into lines 213-220 (the
\* assignment of the stage's result, and repo/branch after prepare_workspace),
\* or the exception leaving the try block for line 266.
P_StageCompleted(s) ==
    /\ pc = <<s, "completed">>
    /\ add_message("pipeline", "stage", <<s, "completed">>)
    /\ IF exc # None
       THEN /\ pc' = <<"except", "add_message">>
            /\ UNCHANGED <<ws, plan, changes, applied, test_result, repo, branch>>
       ELSE /\ pc' = AfterStage(s)
            /\ ws' = IF s = "prepare_workspace" THEN out ELSE ws
            /\ repo' = IF s = "prepare_workspace" THEN Some("repo.url") ELSE repo
            /\ branch' = IF s = "prepare_workspace" THEN Some("branch_name") ELSE branch
            /\ plan' = IF s = "plan_changes" THEN out ELSE plan
            /\ changes' = IF s = "generate_changes" THEN out ELSE changes
            /\ applied' = IF s = "apply_changes" THEN out ELSE applied
            /\ test_result' = IF s = "build_and_test" THEN out ELSE test_result
    /\ UNCHANGED <<stream, verbose, req, commit_info, pr_url, timeline_local, out,
                   attempt, exc, result, trace>>
    /\ UNCHANGED <<runs, runnerVars>>
    /\ PipeFrame

\* line 222: commit_and_push(ws["repo_dir"], req.title), lines 223-226
P_CommitAndPush ==
    /\ pc = <<"commit_and_push", "call">>
    /\ \E o \in {"return", "raise"} :
          IF o = "return"
          THEN /\ commit_info' = Some("commit_info")
               /\ exc' = None
               /\ trace' = trace \o << Started("commit_and_push"),
                                       Returned("commit_and_push") >>
               /\ timeline_local' =
                    IF verbose
                    THEN Append(timeline_local,
                                [stage |-> "commit_and_push", duration_s |-> None,
                                 preview |-> Some(<<"last_commit">>)])
                    ELSE timeline_local
               /\ pc' = <<"commit_and_push", "add_message">>
          ELSE /\ commit_info' = None
               /\ exc' = Some(StageError("commit_and_push"))
               /\ trace' = trace \o << Started("commit_and_push"),
                                       Raised("commit_and_push", StageError("commit_and_push")) >>
               /\ UNCHANGED timeline_local
               /\ pc' = <<"except", "add_message">>
    /\ UNCHANGED <<stream, verbose, req, ws, plan, changes, applied, test_result,
                   pr_url, repo, branch, out, attempt, result>>
    /\ UNCHANGED <<trackerVars, runs, runnerVars>>
    /\ PipeFrame

\* P_CommitMessage with the condition of line 230 without the credential
P_CommitMessageAnyToken ==
    /\ pc = <<"commit_and_push", "add_message">>
    /\ add_message("pipeline", "stage", <<"commit_and_push", "completed">>)
    /\ \E token \in BOOLEAN :
          /\ GITHUB_TOKEN' = Some(token)
          /\ pc' = IF req[1].create_pr
                   THEN <<"open_pull_request", "call">>
                   ELSE <<"finish", "finish_run">>
    /\ UNCHANGED <<runs, localVars, runnerVars, agent, callVars>>
    /\ UNCHANGED <<lockKind, clock, clientVars, applyVars>>

\* line 227, then the condition of line 230 (os.getenv("GITHUB_TOKEN") read here)
P_CommitMessage ==
    /\ pc = <<"commit_and_push", "add_message">>
    /\ add_message("pipeline", "stage", <<"commit_and_push", "completed">>)
    /\ \E token \in BOOLEAN :
          /\ GITHUB_TOKEN' = Some(token)
          /\ pc' = IF req[1].create_pr /\ token
                   THEN <<"open_pull_request", "call">>
                   ELSE <<"finish", "finish_run">>
    /\ UNCHANGED <<runs, localVars, runnerVars, agent, callVars>>
    /\ UNCHANGED <<lockKind, clock, clientVars, applyVars>>

\* lines 231-239: open_pull_request(...) returns the PR's html_url (or None) or raises
P_OpenPullRequest ==
    /\ pc = <<"open_pull_request", "call">>
    /\ \E o \in {"url", "no url", "raise"} :
          IF o = "raise"
          THEN /\ exc' = Some(StageError("open_pull_request"))
               /\ trace' = trace \o << Started("open_pull_request"),
                                       Raised("open_pull_request", StageError("open_pull_request")) >>
               /\ UNCHANGED <<pr_url, timeline_local>>
               /\ pc' = <<"except", "add_message">>
          ELSE /\ pr_url' = IF o = "url" THEN Some("html_url") ELSE None
               /\ exc' = None
               /\ trace' = trace \o << Started("open_pull_request"),
                                       Returned("open_pull_request") >>
               /\ timeline_local' =
                    IF verbose
                    THEN Append(timeline_local,
                                [stage |-> "open_pull_request", duration_s |-> None,
                                 preview |-> Some(<<"pr_url">>)])
                    ELSE timeline_local
               /\ pc' = <<"open_pull_request", "add_message">>
    /\ UNCHANGED <<stream, verbose, req, ws, plan, changes, applied, test_result,
                   commit_info, repo, branch, out, attempt, result>>
    /\ UNCHANGED <<trackerVars, runs, runnerVars>>
    /\ PipeFrame

\* line 240
P_OpenPullRequestMessage ==
    /\ pc = <<"open_pull_request", "add_message">>
    /\ add_message("pipeline", "stage", <<"open_pull_request", "completed">>)
    /\ pc' = <<"finish", "finish_run">>
    /\ UNCHANGED <<runs, localVars, runnerVars>>
    /\ PipeFrame

\* lines 243-246: exit_code = (test_result or {}).get("status");
\* success = str(exit_code) in ("0", "None") or exit_code == 0
ExitCode == IF test_result = None THEN None ELSE Some(test_result[1].status)
SuccessBelowTwo(exit_code) == exit_code = None \/ exit_code[1] <= 1
Success(exit_code) == exit_code = None \/ exit_code = Some(0)
RunStatus == IF Success(ExitCode) THEN "success" ELSE "error"

\* the dict returned at lines 251-264
CompletedResult ==
    [status |-> RunStatus, branch |-> branch, repo |-> repo, pr_url |-> pr_url,
     test_exit_code |-> ExitCode,
     test_logs |-> IF test_result = None THEN Some("") ELSE Some(test_result[1].logs),
     applied |-> applied, elapsed_seconds |-> "elapsed", where |-> None,
     message |-> None, validation_errors |-> None, timeline |-> TimelineOut]

\* ExceptionResult with the identifiers dropped
ExceptionResultNoIds(e) ==
    [status |-> "error", where |-> Some("orchestrator"), message |-> Some(e.message),
     branch |-> None, repo |-> None, pr_url |-> None, test_exit_code |-> None,
     test_logs |-> None, applied |-> None, elapsed_seconds |-> "elapsed",
     timeline |-> TimelineOut]

\* the dict returned at lines 270-282
ExceptionResult(e) ==
    [status |-> "error", where |-> Some("orchestrator"), message |-> Some(e.message),
     branch |-> branch, repo |-> repo, pr_url |-> None, test_exit_code |-> None,
     test_logs |-> None, applied |-> None, elapsed_seconds |-> "elapsed",
     timeline |-> TimelineOut]

\* lines 242-248
P_FinishRun ==
    /\ pc = <<"finish", "finish_run">>
    /\ finish_run("pipeline", RunStatus)
    /\ pc' = <<"finish", "add_message">>
    /\ UNCHANGED <<runs, localVars, runnerVars>>
    /\ PipeFrame

\* lines 249-264
P_Return ==
    /\ pc = <<"finish", "add_message">>
    /\ add_message("pipeline", "system", <<"run finished", RunStatus>>)
    /\ result' = Some(CompletedResult)
    /\ pc' = Idle
    /\ UNCHANGED <<stream, verbose, req, ws, plan, changes, applied, test_result,
                   commit_info, pr_url, repo, branch, timeline_local, out, attempt,
                   exc, trace>>
    /\ UNCHANGED <<runs, runnerVars>>
    /\ PipeFrame

\* lines 266-268
P_ExceptMessage ==
    /\ pc = <<"except", "add_message">>
    /\ add_message("pipeline", "error", exc[1].message)
    /\ pc' = <<"except", "finish_run">>
    /\ UNCHANGED <<runs, localVars, runnerVars>>
    /\ PipeFrame

\* lines 269-282
P_ExceptReturn ==
    /\ pc = <<"except", "finish_run">>
    /\ finish_run("pipeline", "error")
    /\ result' = Some(ExceptionResult(exc[1]))
    /\ pc' = Idle
    /\ UNCHANGED <<stream, verbose, req, ws, plan, changes, applied, test_result,
                   commit_info, pr_url, repo, branch, timeline_local, out, attempt,
                   exc, trace>>
    /\ UNCHANGED <<runs, runnerVars>>
    /\ PipeFrame


\* ------------------------------------------- DockerRunner._to_host_path
\* A path is a string, a sequence of characters; "/" is os.sep. The directory
\* names are abbreviated to one letter: "/j" is /workspace/jobs, "/j2" a
\* sibling of it, "/h" the host base.
Sep == "/"
PathChars == {"/", "j", "2"}
MaxPathLen == 4        \* length of the paths given to _to_host_path

\* the strings over cs of length 0..n
Strings(cs, n) == UNION {[1..k -> cs] : k \in 0..n}

\* str.startswith
startswith(s, prefix) ==
    Len(prefix) <= Len(s) /\ SubSeq(s, 1, Len(prefix)) = prefix

\* s.split("/") without the empty parts: the segments of a path
RECURSIVE Segments(_)
Segments(s) ==
    IF s = << >> THEN << >>
    ELSE IF s[1] = Sep THEN Segments(Tail(s))
    ELSE LET n == CHOOSE k \in 1..Len(s) :
                     /\ \A i \in 1..k : s[i] # Sep
                     /\ (k = Len(s) \/ s[k + 1] = Sep)
         IN <<SubSeq(s, 1, n)>> \o Segments(SubSeq(s, n + 1, Len(s)))

\* "/" + "/".join(segs)
RECURSIVE FromSegments(_)
FromSegments(segs) ==
    IF segs = << >> THEN <<Sep>>
    ELSE IF Len(segs) = 1 THEN <<Sep>> \o segs[1]
    ELSE <<Sep>> \o segs[1] \o FromSegments(Tail(segs))

\* os.path.realpath of an absolute path that names no symbolic link and has no
\* "." or ".." segment: repeated and trailing separators are dropped.
realpath(path) == FromSegments(Segments(path))

\* os.path.join(a, b)
join(a, b) ==
    IF b # << >> /\ b[1] = Sep THEN b
    ELSE IF a = << >> \/ a[Len(a)] = Sep THEN a \o b
    ELSE a \o <<Sep>> \o b

\* the length of the longest common prefix of two segment lists
RECURSIVE CommonLen(_, _)
CommonLen(a, b) ==
    IF a = << >> \/ b = << >> \/ a[1] # b[1] THEN 0
    ELSE 1 + CommonLen(Tail(a), Tail(b))

\* os.path.relpath(path, start) (posixpath): ".." for every segment of start
\* past the common prefix, then the rest of path; "." when nothing is left
relpath(path, start) ==
    LET start_list == Segments(start)
        path_list == Segments(path)
        i == CommonLen(start_list, path_list)
        ups == [k \in 1..(Len(start_list) - i) |-> <<".", ".">>]
        rel_list == ups \o SubSeq(path_list, i + 1, Len(path_list))
    IN IF rel_list = << >> THEN <<".">>
       ELSE SubSeq(FromSegments(rel_list), 2, Len(FromSegments(rel_list)))

\* UnderBase with the test rp.startswith(cbase) (no separator)
UnderBaseByString(rp, cb) == rp = cb \/ startswith(rp, cb)

\* line 63: rp == cbase or rp.startswith(cbase + os.sep)
UnderBase(rp, cb) == rp = cb \/ startswith(rp, cb \o <<Sep>>)

PathValue(v) == [raised |-> FALSE, value |-> v]
PathError(what) == [raised |-> TRUE, value |-> what]

\* to_host_path that goes on with the container path when no host base is set
to_host_path_unmapped(path, cb, hb) ==
    IF path = << >> THEN PathError("Empty path")
    ELSE LET rp == realpath(path)
             c == realpath(cb)
         IN IF UnderBase(rp, c) /\ hb # None
            THEN LET h == realpath(hb[1])
                     suffix == relpath(rp, c)
                 IN PathValue(IF suffix # <<".">> THEN realpath(join(h, suffix))
                                                 ELSE h)
            ELSE PathValue(rp)

\* DockerRunner._to_host_path(path) with self.cbase = cb (a non-empty string)
\* and self.hbase = hb (None, or Some of a non-empty string)
to_host_path(path, cb, hb) ==
    IF path = << >> THEN PathError("Empty path")
    ELSE LET rp == realpath(path)
             c == realpath(cb)
         IN IF UnderBase(rp, c)
            THEN IF hb = None
                 THEN PathError("HOST_WORKSPACE_DIR is not set")
                 ELSE LET h == realpath(hb[1])
                          suffix == relpath(rp, c)
                      IN PathValue(IF suffix # <<".">> THEN realpath(join(h, suffix))
                                                      ELSE h)
            ELSE PathValue(rp)

\* --------------------------------------------------------- DockerRunner.run
\* build_and_test (code_tools.py 207-224) constructs a DockerRunner and calls
\* run(repo_dir, command); the steps below are runners.py 83-139. The daemon's
\* view of the container this call creates is docker:
\*   "none" -> "created" -> "running" -> "exited", and "removed".
B == "build_and_test"
RunnerFrame == /\ UNCHANGED <<timeline_local, attempt>>
               /\ StageFrame
               /\ UNCHANGED <<trackerVars, runs>>
               /\ PipeFrame

RunnerError(type, what) == [type |-> type, message |-> <<"DockerRunner", what>>]

\* WORKSPACE_DIR and HOST_WORKSPACE_DIR as the runner may find them (lines
\* 39-40), and the repo_dir prepare_workspace returns (git_tools.py 107-108,
\* /workspace/jobs/<run_id>/repo): under the default base, the base itself, or
\* outside the base.
DefaultCBase == <<"/", "j">>
RunCBases == {DefaultCBase, <<"/", "j", "/", "2">>, <<"/", "2">>}
HostBases == {None, Some(<<"/", "h">>)}
RepoDir == <<"/", "j", "/", "2">>

\* line 88: logs = ""
NoLogs == [text |-> "", hint |-> None]

\* DockerRunner.__init__ (docker.from_env()) and run() lines 87-94:
\* container = None; the best-effort image pull, whose failure is swallowed.
R_Init ==
    /\ pc = <<B, "body">>
    /\ container' = None
    /\ docker' = "none"
    /\ removes' = 0
    /\ wait_result' = None
    /\ out' = None
    /\ cbase' \in RunCBases
    /\ hbase' \in HostBases
    /\ repo_dir' = RepoDir
    /\ host_repo_dir' = None
    /\ logs' = NoLogs
    /\ \E ok \in BOOLEAN :
          IF ok
          THEN /\ exc' = None
               /\ trace' = Append(trace, Started(B))
               /\ pc' = <<B, "_to_host_path">>
          ELSE /\ exc' = Some(RunnerError("DockerException", "from_env"))
               /\ trace' = trace \o << Started(B),
                              Raised(B, RunnerError("DockerException", "from_env")) >>
               /\ pc' = <<B, "stage_end">>
    /\ RunnerFrame

\* line 97: host_repo_dir = self._to_host_path(repo_dir); the ValueError of
\* lines 56 and 65-69 is no APIError and goes straight to finally.
R_ToHostPath ==
    /\ pc = <<B, "_to_host_path">>
    /\ LET r == to_host_path(repo_dir, cbase, hbase) IN
          IF r.raised
          THEN /\ exc' = Some(RunnerError("ValueError", r.value))
               /\ host_repo_dir' = None
               /\ pc' = <<B, "finally">>
          ELSE /\ exc' = None
               /\ host_repo_dir' = Some(r.value)
               /\ pc' = <<B, "containers.run">>
    /\ UNCHANGED <<out, trace, container, docker, removes, wait_result,
                   cbase, hbase, repo_dir, logs>>
    /\ RunnerFrame

\* lines 105-115: self.client.containers.run(..., detach=True). The SDK creates
\* the container and then starts it; it returns the container only when both
\* succeeded. A daemon error at creation leaves no container; a daemon error at
\* start (a rejected bind mount among them) leaves the created container behind
\* and the local name container unassigned.
R_ContainersRun ==
    /\ pc = <<B, "containers.run">>
    /\ \E o \in {"create fails", "start fails", "mounts denied", "started"} :
          CASE o = "create fails" ->
                 /\ docker' = "none"
                 /\ container' = None
                 /\ exc' = Some(RunnerError("APIError", "create"))
                 /\ pc' = <<B, "except APIError">>
            [] o = "start fails" ->
                 /\ docker' = "created"
                 /\ container' = None
                 /\ exc' = Some(RunnerError("APIError", "start"))
                 /\ pc' = <<B, "except APIError">>
            [] o = "mounts denied" ->
                 /\ docker' = "created"
                 /\ container' = None
                 /\ exc' = Some(RunnerError("APIError", "mounts denied"))
                 /\ pc' = <<B, "except APIError">>
            [] o = "started" ->
                 /\ docker' = "running"
                 /\ container' = Some("container")
                 /\ exc' = None
                 /\ pc' = <<B, "wait">>
    /\ UNCHANGED <<out, trace, removes, wait_result, pathVars>>
    /\ RunnerFrame

\* what container.wait raises when timeout_seconds pass
WaitTimeout == RunnerError("ReadTimeout", "wait timed out")

\* OnWaitTimeout with the timeout taken for a result without StatusCode
OnWaitTimeoutAsExit ==
    /\ wait_result' = Some([timed_out |-> TRUE, has_code |-> FALSE, StatusCode |-> 0])
    /\ exc' = None
    /\ pc' = <<B, "logs">>
    /\ UNCHANGED docker

\* container.wait(timeout=...) ran out of time: the exception is no APIError, so
\* it passes the except clause and reaches finally; result is not assigned
\* (wait_result keeps that the wait timed out).
OnWaitTimeout ==
    /\ wait_result' = Some([timed_out |-> TRUE, has_code |-> FALSE, StatusCode |-> 0])
    /\ exc' = Some(WaitTimeout)
    /\ pc' = <<B, "finally">>
    /\ UNCHANGED docker

\* the exit statuses a container reports
StatusCodes == {0, 1, 2}

\* line 117: result = container.wait(timeout=self.timeout_seconds): the wait
\* returns a dict with or without "StatusCode", raises the HTTP client's
\* timeout error (not an APIError), or raises an APIError.
R_Wait ==
    /\ pc = <<B, "wait">>
    /\ \/ \E code \in StatusCodes :
             /\ wait_result' = Some([timed_out |-> FALSE, has_code |-> TRUE,
                                   StatusCode |-> code])
             /\ docker' = "exited"
             /\ exc' = None
             /\ pc' = <<B, "logs">>
       \/ /\ wait_result' = Some([timed_out |-> FALSE, has_code |-> FALSE, StatusCode |-> 0])
          /\ docker' = "exited"
          /\ exc' = None
          /\ pc' = <<B, "logs">>
       \/ OnWaitTimeout
       \/ /\ exc' = Some(RunnerError("APIError", "wait"))
          /\ pc' = <<B, "except APIError">>
          /\ UNCHANGED <<wait_result, docker>>
    /\ UNCHANGED <<out, trace, container, removes, pathVars>>
    /\ RunnerFrame

\* line 119: status = int(result.get("StatusCode", 1))
StatusOf(r) == IF r.has_code THEN r.StatusCode ELSE 1

\* lines 118-120 and code_tools.py 221-224: the logs are read, run() returns
\* (status, logs) and build_and_test wraps them in its result dict
R_Logs ==
    /\ pc = <<B, "logs">>
    /\ \E ok \in BOOLEAN :
          IF ok
          THEN /\ logs' = [logs EXCEPT !.text = "logs"]
               /\ out' = Some([status |-> StatusOf(wait_result[1]), logs |-> "logs"])
               /\ exc' = None
               /\ pc' = <<B, "finally">>
          ELSE /\ logs' = logs
               /\ out' = None
               /\ exc' = Some(RunnerError("APIError", "logs"))
               /\ pc' = <<B, "except APIError">>
    /\ UNCHANGED <<trace, container, docker, removes, wait_result,
                   cbase, hbase, repo_dir, host_repo_dir>>
    /\ RunnerFrame

\* lines 129-131: the diagnostic of the hint
Hint ==
    [WORKSPACE_DIR |-> cbase, HOST_WORKSPACE_DIR |-> hbase,
     bind_source |-> host_repo_dir]

\* line 124: the daemon's explanation names a host file-sharing problem
MountsDenied(e) == e.type = "APIError" /\ e.message[2] = "mounts denied"

\* lines 122-133: except APIError: for a file-sharing error the hint is
\* appended to the local logs; then `raise` raises the exception caught, as
\* it was caught
R_ExceptAPIError ==
    /\ pc = <<B, "except APIError">>
    /\ logs' = IF MountsDenied(exc[1]) THEN [logs EXCEPT !.hint = Some(Hint)]
                                       ELSE logs
    /\ pc' = <<B, "finally">>
    /\ UNCHANGED <<out, exc, trace, container, docker, removes, wait_result,
                   cbase, hbase, repo_dir, host_repo_dir>>
    /\ RunnerFrame

\* lines 135-139: finally, with a container at hand: container.remove(force=True),
\* an exception of which is swallowed
R_Remove ==
    /\ pc = <<B, "finally">>
    /\ container # None
    /\ \E removed \in BOOLEAN :
          /\ docker' = IF removed THEN "removed" ELSE docker
          /\ removes' = IF removed THEN removes + 1 ELSE removes
    /\ pc' = <<B, "leave">>
    /\ UNCHANGED <<out, exc, trace, container, wait_result, pathVars>>
    /\ RunnerFrame

\* the end of finally (at once when container is None): run() returns, or the
\* exception leaves run(), build_and_test and _smart_call (it is no TypeError);
\* the runner and the locals of run() are gone
R_Leave ==
    /\ \/ pc = <<B, "leave">>
       \/ pc = <<B, "finally">> /\ container = None
    /\ trace' = Append(trace, IF exc = None THEN Returned(B) ELSE Raised(B, exc[1]))
    /\ out' = IF exc = None THEN out ELSE None
    /\ pc' = <<B, "stage_end">>
    /\ cbase' = DefaultCBase
    /\ hbase' = None
    /\ repo_dir' = << >>
    /\ host_repo_dir' = None
    /\ logs' = NoLogs
    /\ UNCHANGED <<exc, container, docker, removes, wait_result>>
    /\ RunnerFrame

\* ------------------------------------------ apply_changes (code_tools.py)
MaxEdits == 2          \* length of the list given to apply_changes

\* posixpath.normpath of the segments of an absolute path: "." is dropped,
\* ".." drops the segment before it (and nothing at the root)
RECURSIVE NormSegments(_, _)
NormSegments(segs, acc) ==
    IF segs = << >> THEN acc
    ELSE IF Head(segs) = <<".">> THEN NormSegments(Tail(segs), acc)
    ELSE IF Head(segs) = <<".", ".">>
    THEN NormSegments(Tail(segs),
                      IF acc = << >> THEN acc ELSE SubSeq(acc, 1, Len(acc) - 1))
    ELSE NormSegments(Tail(segs), Append(acc, Head(segs)))

\* os.path.abspath with the working directory "/": normpath(join(cwd, path))
abspath(path) == FromSegments(NormSegments(Segments(join(<<Sep>>, path)), << >>))

\* os.path.dirname of a normalised absolute path
dirname(path) ==
    LET segs == Segments(path)
    IN IF segs = << >> THEN <<Sep>> ELSE FromSegments(SubSeq(segs, 1, Len(segs) - 1))

\* _safe_join without the test of line 66
safe_join_unchecked(base, path) == PathValue(abspath(join(base, path)))

\* _safe_join(base, path), lines 60-68
safe_join(base, path) ==
    LET candidate == abspath(join(base, path))
        base_abs == abspath(base)
    IN IF ~startswith(candidate, base_abs \o <<Sep>>) /\ candidate # base_abs
       THEN PathError("Refusing to write outside repo")
       ELSE PathValue(candidate)

\* _ensure_trailing_newline(s), lines 70-71
ensure_trailing_newline(c) ==
    IF c # << >> /\ c[Len(c)] = "\n" THEN c ELSE c \o <<"\n">>

\* what the file system has at a path
Absent == [kind |-> "absent", data |-> << >>]
Dir == [kind |-> "dir", data |-> << >>]
File(content) == [kind |-> "file", data |-> content]
Link(target) == [kind |-> "link", data |-> target]

\* the repository root (repo_dir), a directory outside it, and the paths of
\* the file system the edits below can name
Root == <<"/", "r">>
Outside == <<"/", "o">>
Nodes ==
    { <<"/">>, Root, Outside, <<"/", "a">>, <<"/", "r", "a">>,
      <<"/", "r", "/", "a">>, <<"/", "r", "/", "a", "/", "a">>,
      <<"/", "r", "/", "s">>, <<"/", "r", "/", "s", "/", "a">>,
      <<"/", "o", "/", "a">> }

\* the path with the symbolic links of its directories followed
RECURSIVE ResolveFrom(_, _, _)
ResolveFrom(tree, cur, segs) ==
    IF segs = << >> THEN cur
    ELSE LET next == join(cur, Head(segs))
             real == IF next \in DOMAIN tree /\ tree[next].kind = "link"
                     THEN tree[next].data ELSE next
         IN ResolveFrom(tree, real, Tail(segs))
resolve(tree, path) == ResolveFrom(tree, <<Sep>>, Segments(path))

KindAt(tree, path) == tree[resolve(tree, path)].kind

\* os.path.exists(path)
exists(tree, path) == KindAt(tree, path) # "absent"

\* the outcome of a file-system call: the tree after it, and whether it raised
Ok(tree) == [raised |-> FALSE, tree |-> tree]
OSError(tree) == [raised |-> TRUE, tree |-> tree]

\* os.remove(path): a regular file is unlinked, anything else is an error
remove(tree, path) ==
    IF KindAt(tree, path) = "file"
    THEN Ok([tree EXCEPT ![resolve(tree, path)] = Absent])
    ELSE OSError(tree)

\* os.makedirs(path, exist_ok=True): the missing directories of path are
\* created from the root down; a regular file on the way is an error
RECURSIVE MakeDirsFrom(_, _, _)
MakeDirsFrom(tree, cur, segs) ==
    IF segs = << >> THEN Ok(tree)
    ELSE LET next == resolve(tree, join(cur, Head(segs)))
         IN CASE tree[next].kind = "dir" -> MakeDirsFrom(tree, next, Tail(segs))
              [] tree[next].kind = "absent" ->
                   MakeDirsFrom([tree EXCEPT ![next] = Dir], next, Tail(segs))
              [] OTHER -> OSError(tree)
makedirs(tree, path) == MakeDirsFrom(tree, <<Sep>>, Segments(path))

\* open(path, "w").write(content): the file is created or truncated; a
\* directory at path, or no directory above it, is an error
write(tree, path, content) ==
    IF /\ KindAt(tree, path) \in {"absent", "file"}
       /\ KindAt(tree, dirname(path)) = "dir"
    THEN Ok([tree EXCEPT ![resolve(tree, path)] = File(content)])
    ELSE OSError(tree)

\* models.FileEdit
FileEdit(action, path, content) == [action |-> action, path |-> path, content |-> content]

\* the paths of the edits: a file of the root, a file in a directory, the root
\* itself, the same file by an absolute path, a path leaving the root upwards,
\* an absolute path outside, a sibling whose name begins with the root's, and
\* a path through the directory s
EditPaths ==
    { <<"a">>, <<"a", "/", "a">>, <<".">>, <<"/", "r", "/", "a">>,
      <<".", ".", "/", "a">>, <<"/", "a">>, <<".", ".", "/", "r", "a">>,
      <<"s", "/", "a">> }

\* the edits: one to create, one to modify and one to delete each path
FileEdits ==
    UNION { { FileEdit("create", p, <<"x">>), FileEdit("modify", p, <<"y", "\n">>),
              FileEdit("delete", p, << >>) } : p \in EditPaths }

\* the file trees before the call: /r/a is absent, a file, an empty directory
\* or a directory with the file a; /r/s is absent or a symbolic link to the
\* directory /o outside the root; /a and /o/a are files outside the root
Trees ==
    { [n \in Nodes |->
         CASE n \in {<<"/">>, Root, Outside} -> Dir
           [] n \in {<<"/", "a">>, <<"/", "o", "/", "a">>} -> File(<<"o", "\n">>)
           [] n = <<"/", "r", "/", "a">> -> a
           [] n = <<"/", "r", "/", "a", "/", "a">> -> aa
           [] n = <<"/", "r", "/", "s">> -> l
           [] OTHER -> Absent]
      : a \in {Absent, Dir, File(<<"x", "\n">>)}, aa \in {Absent, File(<<"z", "\n">>)},
        l \in {Absent, Link(Outside)} }

\* the trees in which what is below a path is absent unless the path is a directory
WellFormed(tree) ==
    tree[<<"/", "r", "/", "a", "/", "a">>] # Absent => tree[<<"/", "r", "/", "a">>] = Dir

\* the locals of apply_changes at the start of a call, lines 170-172
Frame(edits) ==
    [edits |-> edits, k |-> 1, applied |-> << >>, deleted |-> << >>, skipped |-> << >>]

ApplyFrame ==
    UNCHANGED <<lockKind, trackerVars, clock, clientVars, runs, envVars, callVars,
                runnerVars, fs0, gen>>

\* the effect of one edit on the file system, lines 176-191: the tree after
\* it, whether it raised, and whether it deleted a file
EditEffect(tree, base, e) ==
    LET target == safe_join(base, e.path) IN
    IF target.raised THEN [raised |-> TRUE, tree |-> tree, deleted |-> FALSE]
    ELSE IF e.action = "delete"
    THEN IF exists(tree, target.value)
         THEN LET r == remove(tree, target.value)
              IN [raised |-> r.raised, tree |-> r.tree, deleted |-> ~r.raised]
         ELSE [raised |-> FALSE, tree |-> tree, deleted |-> FALSE]
    ELSE LET d == makedirs(tree, dirname(target.value)) IN
         IF d.raised THEN [raised |-> TRUE, tree |-> d.tree, deleted |-> FALSE]
         ELSE LET w == write(d.tree, target.value, ensure_trailing_newline(e.content))
              IN [raised |-> w.raised, tree |-> w.tree, deleted |-> FALSE]

\* one turn of the loop of lines 174-195 without the try/except: an edit
\* that raises ends the call
A_EditUnprotected ==
    /\ pc = <<"apply_changes", "for">>
    /\ ac.k <= Len(ac.edits)
    /\ LET e == ac.edits[ac.k]
           r == EditEffect(fs, Root, e)
       IN /\ fs' = r.tree
          /\ IF r.raised
             THEN /\ exc' = Some([type |-> "OSError", message |-> e.path])
                  /\ pc' = <<"apply_changes", "raised">>
                  /\ UNCHANGED ac
             ELSE /\ ac' = [ac EXCEPT
                       !.k = @ + 1,
                       !.applied = IF e.action # "delete" \/ r.deleted
                                   THEN Append(@, e.path) ELSE @,
                       !.deleted = IF r.deleted THEN Append(@, e.path) ELSE @,
                       !.skipped = IF e.action = "delete" /\ ~r.deleted
                                   THEN Append(@, e.path) ELSE @]
                  /\ UNCHANGED <<pc, exc>>
    /\ UNCHANGED <<stream, verbose, req, ws, plan, changes, applied, test_result,
                   commit_info, pr_url, repo, branch, timeline_local, out, attempt,
                   result, trace, done>>
    /\ ApplyFrame

\* one turn of the loop of lines 174-195: the edit is applied, or skipped
\* when the path is absent (delete) or anything raised
A_Edit ==
    /\ pc = <<"apply_changes", "for">>
    /\ ac.k <= Len(ac.edits)
    /\ LET e == ac.edits[ac.k]
           r == EditEffect(fs, Root, e)
       IN /\ fs' = r.tree
          /\ ac' = [ac EXCEPT
                       !.k = @ + 1,
                       !.applied = IF ~r.raised /\ (e.action # "delete" \/ r.deleted)
                                   THEN Append(@, e.path) ELSE @,
                       !.deleted = IF r.deleted THEN Append(@, e.path) ELSE @,
                       !.skipped = IF r.raised \/ (e.action = "delete" /\ ~r.deleted)
                                   THEN Append(@, e.path) ELSE @]
    /\ UNCHANGED <<pc, localVars, done>>
    /\ ApplyFrame

\* the dict returned, lines 197-203
Summary ==
    [applied_count |-> Len(ac.applied), deleted_count |-> Len(ac.deleted),
     applied_files |-> ac.applied, deleted_files |-> ac.deleted,
     skipped_files |-> ac.skipped]

A_Return ==
    /\ pc = <<"apply_changes", "for">>
    /\ ac.k > Len(ac.edits)
    /\ done' = Append(done, [ret |-> Summary, fs |-> fs])
    /\ pc' = <<"apply_changes", "returned">>
    /\ UNCHANGED <<fs, ac, localVars>>
    /\ ApplyFrame

\* apply_changes is called again with the same list on the tree it left
A_CallAgain ==
    /\ pc = <<"apply_changes", "returned">>
    /\ Len(done) < 2
    /\ ac' = Frame(ac.edits)
    /\ pc' = <<"apply_changes", "for">>
    /\ UNCHANGED <<fs, done, localVars>>
    /\ ApplyFrame

\* --------------------------------------- generate_changes (code_tools.py)
\* the actions the model may write in an edit of its JSON
OutputActions == {"create", "modify", "delete", "rename", "Create", " delete"}

\* models.FileEdit.action: Literal["create", "modify", "delete"]
ActionLiteral == {"create", "modify", "delete"}

\* e.action.lower().strip(), line 154
lower_strip(a) ==
    CASE a = "Create" -> "create"
      [] a = " delete" -> "delete"
      [] OTHER -> a

\* s.lstrip(chars)
RECURSIVE lstrip(_, _)
lstrip(str, chars) ==
    IF str # << >> /\ str[1] \in chars THEN lstrip(Tail(str), chars) ELSE str

\* the edits the model may write
OutputEdits ==
    { FileEdit(a, p, c) : a \in OutputActions,
                          p \in {<<"a">>, <<".", "/", "a">>},
                          c \in {<<"x">>} }

\* the locals of generate_changes before structured_output returns
Generating(output) == [output |-> output, result |-> None, cleaned |-> << >>, k |-> 1]

\* pydantic's validation of the output against _FileEditListModel (lines
\* 142-143): every edit's action is one of the literals of FileEdit.action
Validates(output) == \A i \in DOMAIN output : output[i].action \in ActionLiteral

ValidationError ==
    [type |-> "RuntimeError", message |-> <<"FileEditListValidationError">>]

GenFrame ==
    UNCHANGED <<lockKind, trackerVars, clock, clientVars, runs, envVars, callVars,
                runnerVars, fs, fs0, ac, done>>

GenLocals ==
    UNCHANGED <<stream, verbose, req, ws, plan, changes, applied, test_result,
                commit_info, pr_url, repo, branch, timeline_local, attempt, result,
                trace>>

\* lines 145-149: result = tool_context.agent.structured_output(_FileEditListModel,
\* prompt); a ValidationError becomes a RuntimeError that leaves generate_changes
G_StructuredOutput ==
    /\ pc = <<"generate_changes", "structured_output">>
    /\ IF Validates(gen.output)
       THEN /\ gen' = [gen EXCEPT !.result = Some(gen.output)]
            /\ exc' = None
            /\ pc' = <<"generate_changes", "for">>
       ELSE /\ exc' = Some(ValidationError)
            /\ pc' = <<"generate_changes", "raised">>
            /\ UNCHANGED gen
    /\ UNCHANGED out
    /\ GenLocals /\ GenFrame

\* lines 153-160: one turn of the loop over result.edits
G_Clean ==
    /\ pc = <<"generate_changes", "for">>
    /\ gen.k <= Len(gen.result[1])
    /\ LET e == gen.result[1][gen.k]
           act == lower_strip(e.action)
       IN gen' = [gen EXCEPT
                    !.k = @ + 1,
                    !.cleaned = IF act \notin {"create", "modify", "delete"} THEN @
                                ELSE Append(@, FileEdit(act, lstrip(e.path, {".", "/"}),
                                                        e.content))]
    /\ UNCHANGED <<pc, out, exc>>
    /\ GenLocals /\ GenFrame

\* line 162: return cleaned
G_Return ==
    /\ pc = <<"generate_changes", "for">>
    /\ gen.k > Len(gen.result[1])
    /\ out' = Some(gen.cleaned)
    /\ pc' = <<"generate_changes", "returned">>
    /\ UNCHANGED <<gen, exc>>
    /\ GenLocals /\ GenFrame

\* ------------------------------------------------------------ specifications
\* no call of apply_changes
InitNoFiles ==
    /\ fs = [n \in Nodes |-> Absent] /\ fs0 = fs
    /\ ac = Frame(<< >>) /\ done = << >>

\* no call of generate_changes
InitNoOutput == gen = Generating(<< >>)

InitNoContext ==
    /\ lock = "free"
    /\ status = reset_state.status
    /\ current_stage = reset_state.current_stage
    /\ timeline = reset_state.timeline
    /\ conversation = reset_state.conversation
    /\ started_at = reset_state.started_at
    /\ run_span = None
    /\ stage_span = None
    /\ clock = 0
    /\ snap = None
    /\ cpc = "idle"
    /\ ccall = None
    /\ runs = 0
    /\ verbose = FALSE /\ applied = None
    /\ commit_info = None /\ pr_url = None
    /\ repo = None /\ branch = None
    /\ timeline_local = << >> /\ out = None /\ attempt = 0 /\ exc = None
    /\ result = None /\ trace = << >>
    /\ agent = None /\ GITHUB_TOKEN = None /\ kwargs = None
    /\ container = None /\ docker = "none" /\ removes = 0 /\ wait_result = None
    /\ host_repo_dir = None /\ logs = NoLogs

\* nothing in the slots of the pipeline's context
InitBase ==
    /\ InitNoContext
    /\ stream = FALSE
    /\ req = None /\ ws = None /\ plan = None /\ changes = None /\ test_result = None

\* no call of run_requirement_pipeline in progress, no runner constructed
InitCommon ==
    /\ InitBase
    /\ pc = Idle
    /\ cbase = DefaultCBase /\ hbase = None /\ repo_dir = << >>
    /\ sig = NoSignature
    /\ InitNoFiles /\ InitNoOutput

\* The program as written: self._lock = Lock() (observability.py line 90).
Init == lockKind = "Lock" /\ InitCommon

\* The program with the tracker's lock made re-entrant. This is not the code as
\* written: it is the variant in which start_run() returns, used to examine
\* the stages of run_requirement_pipeline, which the code as written never
\* reaches (see PipelineCallReturns).
InitRLock == lockKind = "RLock" /\ InitCommon

\* the steps of one call of run_requirement_pipeline
PipelineNext ==
    \/ P_Call \/ P_StartRun \/ P_StartRunReset \/ P_Load
    \/ P_LoadErrorMessage \/ P_LoadErrorReturn \/ P_StartMessage
    \/ \E s \in Stages :
          \/ P_StageStart(s) \/ P_StageStartedMessage(s) \/ P_SmartCall(s)
          \/ P_Body(s) \/ P_Fallback(s) \/ P_StageEnd(s) \/ P_StageCompleted(s)
    \/ R_Init \/ R_ToHostPath \/ R_ContainersRun \/ R_Wait \/ R_Logs
    \/ R_ExceptAPIError \/ R_Remove \/ R_Leave
    \/ P_CommitAndPush \/ P_CommitMessage \/ P_OpenPullRequest
    \/ P_OpenPullRequestMessage \/ P_FinishRun \/ P_Return
    \/ P_ExceptMessage \/ P_ExceptReturn

\* The steps that can be taken under Init: with a threading.Lock, P_StartRunReset
\* and ClientStartRunReset are never enabled, and so nothing after them is.
Next ==
    \/ Tick
    \/ ClientStageStart \/ ClientStageEnd \/ ClientStageEndRest
    \/ ClientAddMessage \/ ClientFinishRun \/ ClientStartRun
    \/ P_Call \/ P_StartRun

NextRLock == Tick \/ PipelineNext

\* The same with a second thread that calls snapshot() and reads what it got.
NextReader == Next \/ ReaderSnapshot

Spec == Init /\ [][Next]_vars
SpecReader == Init /\ [][NextReader]_vars
SpecRLock == InitRLock /\ [][NextRLock]_vars

\* Two runs at once: POST /run (fastapi_app.py lines 66-77) hands each request
\* to a worker thread and takes no lock, so a second run's thread can make its
\* tracker calls between any two steps of the first. The second run is the
\* caller of the tracker's API above, followed from its start_run into a
\* stage; the lock is the re-entrant one of InitRLock.
NextTwoRuns ==
    \/ PipelineNext
    \/ ClientStartRun \/ ClientStartRunReset \/ ClientStageStart

SpecTwoRuns == InitRLock /\ [][NextTwoRuns]_vars

\* DockerRunner._to_host_path on its own: a runner with any of the bases,
\* called with any absolute path of up to MaxPathLen characters.
PathInputs == {p \in Strings(PathChars, MaxPathLen) : p # << >> /\ p[1] = Sep}
PathCBases == {DefaultCBase, <<"/", "j", "/", "2">>}

InitPath ==
    /\ lockKind = "Lock"
    /\ InitBase
    /\ pc = <<"_to_host_path", "call">>
    /\ repo_dir \in PathInputs
    /\ sig = NoSignature
    /\ InitNoFiles /\ InitNoOutput
    /\ cbase \in PathCBases
    /\ hbase \in HostBases

Call_to_host_path ==
    /\ pc = <<"_to_host_path", "call">>
    /\ LET r == to_host_path(repo_dir, cbase, hbase) IN
          /\ exc' = IF r.raised THEN Some(RunnerError("ValueError", r.value)) ELSE None
          /\ host_repo_dir' = IF r.raised THEN None ELSE Some(r.value)
    /\ pc' = <<"_to_host_path", "return">>
    /\ UNCHANGED <<lockKind, trackerVars, clock, clientVars, runs, envVars, callVars,
                   applyVars>>
    /\ UNCHANGED <<stream, verbose, req, ws, plan, changes, applied, test_result,
                   commit_info, pr_url, repo, branch, timeline_local, out, attempt,
                   result, trace>>
    /\ UNCHANGED <<container, docker, removes, wait_result, cbase, hbase, repo_dir,
                   logs>>

NextPath == Call_to_host_path

SpecPath == InitPath /\ [][NextPath]_vars

\* --------------------------------------------- one call of _smart_call(fn, ...)
\* The callees: the five stage functions, and functions with the parameter
\* names of the three fallback shapes, with a name mapping does not have
\* ("other"), and with a tool_context.
Signatures ==
    {Signature(Params(s), Required(s)) : s \in Stages} \cup
    { Signature({"requirement", "repo_dir"}, {"requirement", "repo_dir"}),
      Signature({"req", "cwd", "stream"}, {"req", "cwd"}),
      Signature({"requirement", "repo_dir", "plan", "changes", "test_result"},
                {"requirement", "repo_dir", "plan", "changes", "test_result"}),
      Signature({"requirement", "repo_dir", "plan", "changes", "test_result"},
                {"requirement", "repo_dir"}),
      Signature({"other"}, {"other"}),
      Signature({"req", "other"}, {"req"}),
      Signature({"tool_context", "other"}, {"tool_context", "other"}),
      Signature({"tool_context", "requirement", "repo_dir"},
                {"tool_context", "requirement", "repo_dir"}) }

\* the keyword arguments _smart_call is called with (lines 63-68)
InitInvoke ==
    /\ lockKind = "Lock"
    /\ InitNoContext
    /\ pc = <<"fn", "smart_call">>
    /\ sig \in Signatures
    /\ req \in {Some(r) : r \in Requirements}
    /\ ws \in {None, StageValue("prepare_workspace")}
    /\ plan \in {None, StageValue("plan_changes")}
    /\ changes \in {None, StageValue("generate_changes")}
    /\ test_result \in {None, StageValue("build_and_test")}
    /\ stream \in BOOLEAN
    /\ cbase = DefaultCBase /\ hbase = None /\ repo_dir = << >>
    /\ InitNoFiles /\ InitNoOutput

NextInvoke == P_SmartCall("fn") \/ P_Body("fn") \/ P_Fallback("fn")

SpecInvoke == InitInvoke /\ [][NextInvoke]_vars

\* ------------------------------- apply_changes(repo_dir, edits), called twice
\* the lists of at most n edits
EditLists(n) == UNION {[1..k -> FileEdits] : k \in 0..n}

InitApply ==
    /\ lockKind = "Lock"
    /\ InitBase
    /\ pc = <<"apply_changes", "for">>
    /\ cbase = DefaultCBase /\ hbase = None /\ repo_dir = << >>
    /\ sig = NoSignature
    /\ fs0 \in {t \in Trees : WellFormed(t)}
    /\ fs = fs0
    /\ ac \in {Frame(l) : l \in EditLists(MaxEdits)}
    /\ done = << >>
    /\ InitNoOutput

NextApply == A_Edit \/ A_Return \/ A_CallAgain

SpecApply == InitApply /\ [][NextApply]_vars

\* ------------------------------------------------- one call of generate_changes
OutputLists(n) == UNION {[1..k -> OutputEdits] : k \in 0..n}

InitGenerate ==
    /\ lockKind = "Lock"
    /\ InitBase
    /\ pc = <<"generate_changes", "structured_output">>
    /\ cbase = DefaultCBase /\ hbase = None /\ repo_dir = << >>
    /\ sig = NoSignature
    /\ InitNoFiles
    /\ gen \in {Generating(o) : o \in OutputLists(MaxEdits)}

NextGenerate == G_StructuredOutput \/ G_Clean \/ G_Return

SpecGenerate == InitGenerate /\ [][NextGenerate]_vars


\* ------------------------------------------------------------------ claims
Returned_(s) == \E i \in 1..Len(trace) : trace[i] = Returned(s)
StartedIn(s) == \E i \in 1..Len(trace) : trace[i] = Started(s)
RaisedIn(s) == \E i \in 1..Len(trace) : trace[i].ev = "raise" /\ trace[i].stage = s
HasReturned == pc = Idle /\ result # None

\* C1: every call of run_requirement_pipeline returns: while a call is in
\* progress and no other thread holds the tracker's lock, the call can take
\* its next step.
PipelineCallReturns ==
    (pc # Idle /\ lock \in {"free", "pipeline"}) => ENABLED PipelineNext


\* C8: start_run(), called in any state of the tracker, completes: a thread
\* that is inside start_run() can take the step that resets the state and sets
\* status = running.
StartRunCompletes == cpc = "start_run.reset" => ENABLED ClientStartRunReset

\* the stages in the order of the claim
FullOrder == StageOrder \o <<"commit_and_push", "open_pull_request">>

\* C2: the stage bodies start in the fixed order, each one after the one before
\* it has returned, none twice, and none after a stage has raised: the events
\* of a run are start/return pairs of consecutive stages of FullOrder, and only
\* the last event may be a raise.
StagesInOrder ==
    \A i \in 1..Len(trace) :
       LET k == (i + 1) \div 2 IN
       /\ k <= Len(FullOrder)
       /\ trace[i].stage = FullOrder[k]
       /\ (i % 2 = 1) => trace[i].ev = "start"
       /\ (i % 2 = 0) => trace[i].ev \in {"return", "raise"}
       /\ (i % 2 = 0 /\ i < Len(trace)) => trace[i].ev = "return"

\* C2 witness: a run in which all seven stages started and returned
AllSevenStagesRan ==
    /\ Len(trace) = 2 * Len(FullOrder)
    /\ trace[Len(trace)] = Returned("open_pull_request")

\* the load error in flight or reported, if any
LoadFailed == exc # None /\ exc[1] \in LoadErrors

\* C3: when load_requirement raises RequirementLoadError no stage is invoked
\* and no workspace exists, and the result returned has status error and the
\* error's where, message and validation_errors, which are not empty for a
\* schema-validation failure.
LoadErrorShortCircuits ==
    LoadFailed =>
       /\ trace = << >>
       /\ ws = None
       /\ timeline = << >>
       /\ HasReturned =>
            /\ result[1].status = "error"
            /\ result[1].where = Some(exc[1].where)
            /\ result[1].message = Some(exc[1].message)
            /\ result[1].validation_errors = Some(exc[1].validation_errors)
            /\ (exc[1].where = "models.Requirement"
                    => result[1].validation_errors[1] # << >>)

\* C3 witness: a call returned after a schema-validation failure
SchemaFailureReturned ==
    HasReturned /\ LoadFailed /\ exc[1].where = "models.Requirement"

\* every stage of the run returned (open_pull_request when it was started)
AllStagesReturned ==
    /\ \A s \in Stages \cup {"commit_and_push"} : Returned_(s)
    /\ \A i \in 1..Len(trace) : trace[i].ev # "raise"
    /\ Len(trace) % 2 = 0

\* C4: when every stage returned, the result's status is success exactly when
\* the exit status build_and_test got from the container is 0, it is error
\* otherwise, and test_exit_code is that exit status.
SuccessIffExitZero ==
    (HasReturned /\ AllStagesReturned) =>
       /\ result[1].test_exit_code = Some(StatusOf(wait_result[1]))
       /\ result[1].status = "success" <=> StatusOf(wait_result[1]) = 0
       /\ result[1].status \in {"success", "error"}

\* C4 witness: a run whose stages all returned, with exit status 1
CompletedWithExitOne ==
    /\ HasReturned /\ AllStagesReturned
    /\ result[1].status = "error" /\ result[1].test_exit_code = Some(1)

\* C5: an exception raised by a stage ends the run: no stage starts after it,
\* and the result has status error, where "orchestrator" and the message of
\* that exception.
StageFailureReported ==
    \A i \in 1..Len(trace) :
       trace[i].ev = "raise" =>
          /\ i = Len(trace)
          /\ HasReturned =>
               /\ result[1].status = "error"
               /\ result[1].where = Some("orchestrator")
               /\ result[1].message = Some(trace[i].exc[1].message)

\* the keys of the output contract
ResultKeys ==
    {"status", "branch", "repo", "pr_url", "test_exit_code", "test_logs", "applied",
     "elapsed_seconds", "where", "message", "validation_errors", "timeline"}

\* C6: every result returned has all twelve keys.
ResultHasAllKeys == result # None => DOMAIN result[1] = ResultKeys

\* C7: a stage failure after prepare_workspace returned keeps the identifiers:
\* the error result carries the requirement's branch name and repo URL.
IdentifiersPreserved ==
    (HasReturned /\ Returned_("prepare_workspace")
                 /\ result[1].where = Some("orchestrator")) =>
       /\ result[1].branch = Some("branch_name")
       /\ result[1].repo = Some("repo.url")

\* C7 witness: plan_changes raised after prepare_workspace returned
FailedAfterPrepare ==
    /\ HasReturned /\ Returned_("prepare_workspace") /\ RaisedIn("plan_changes")
    /\ result[1].where = Some("orchestrator")

\* C9: when DockerRunner.run has returned or raised, the container it created
\* does not exist any more and was removed exactly once.
ContainerRemovedOnce ==
    pc = <<B, "stage_end">> =>
       \/ docker = "none" /\ removes = 0
       \/ docker = "removed" /\ removes = 1

\* the container.wait of the run's build_and_test timed out
WaitTimedOut == RaisedIn(B) /\ wait_result # None /\ wait_result[1].timed_out

\* C10: a timed-out wait gives no (status, logs) pair: build_and_test raises and
\* the result has where "orchestrator" and test_exit_code None; a non-zero exit
\* in a run whose stages all returned gives where None and that exit status.
TimeoutIsNotAnExitCode ==
    /\ (StartedIn(B) /\ wait_result # None /\ wait_result[1].timed_out
                      /\ pc[1] # B) =>
          /\ ~Returned_(B)
          /\ test_result = None
          /\ HasReturned =>
               /\ result[1].where = Some("orchestrator")
               /\ result[1].test_exit_code = None
               /\ result[1].message = Some(WaitTimeout.message)
    /\ (HasReturned /\ AllStagesReturned /\ StatusOf(wait_result[1]) # 0) =>
          /\ result[1].where = None
          /\ result[1].test_exit_code = Some(StatusOf(wait_result[1]))

\* C10 witness: a call returned after the wait had timed out
ReturnedAfterTimeout == HasReturned /\ WaitTimedOut


\* C11: when the daemon rejects the bind mount with a file-sharing error, the
\* exception that leaves DockerRunner.run carries the diagnostic: the configured
\* WORKSPACE_DIR and HOST_WORKSPACE_DIR and the resolved bind source.
MountDenialCarriesHint ==
    (pc[1] = B /\ pc[2] \in {"finally", "leave"} /\ exc # None
               /\ MountsDenied(exc[1])) =>
       /\ "hint" \in DOMAIN exc[1]
       /\ exc[1].hint = Hint

\* a is a whole-segment prefix of b
IsSegmentPrefix(a, b) == Len(a) <= Len(b) /\ SubSeq(b, 1, Len(a)) = a

\* C12: with a host base configured, _to_host_path(p) returns hbase followed by
\* the segments of p below cbase when the segments of cbase are a prefix of the
\* segments of p (exactly hbase when they are equal), and p itself otherwise: a
\* sibling of cbase is not taken for a path under it.
PathTranslation ==
    (pc = <<"_to_host_path", "return">> /\ hbase # None) =>
       LET P == Segments(repo_dir)
           C == Segments(cbase)
           H == Segments(hbase[1])
       IN /\ exc = None
          /\ host_repo_dir # None
          /\ IF IsSegmentPrefix(C, P)
             THEN /\ Segments(host_repo_dir[1]) = H \o SubSeq(P, Len(C) + 1, Len(P))
                  /\ (P = C => host_repo_dir[1] = hbase[1])
             ELSE /\ Segments(host_repo_dir[1]) = P
                  /\ (repo_dir = FromSegments(P) => host_repo_dir[1] = repo_dir)

\* C12 witness: the sibling /j2 of the base /j came back unchanged
SiblingUnchanged ==
    /\ pc = <<"_to_host_path", "return">> /\ hbase # None
    /\ cbase = <<"/", "j">>
    /\ repo_dir = <<"/", "j", "2">>
    /\ host_repo_dir = Some(<<"/", "j", "2">>)

\* the steps of run() after the call of _to_host_path
AfterTranslation ==
    pc[1] = B /\ pc[2] \in {"containers.run", "wait", "logs", "except APIError",
                            "finally", "leave"}

\* the path given to run() is at or under the container base, no host base is set
NeedsHostBase ==
    /\ repo_dir # << >>
    /\ IsSegmentPrefix(Segments(cbase), Segments(repo_dir))
    /\ hbase = None

\* C13: when the path given to run() is at or under the container base and no
\* host base is configured, run() raises ValueError and no container is created
\* or started in that call.
NoHostBaseFailsFast ==
    (AfterTranslation /\ NeedsHostBase) =>
       /\ pc[2] \in {"finally", "leave"}
       /\ exc # None /\ exc[1].type = "ValueError"
       /\ docker = "none" /\ container = None /\ wait_result = None

\* C13 witness: run() is leaving with the ValueError
RaisedForMissingHostBase ==
    /\ pc = <<B, "finally">> /\ NeedsHostBase
    /\ exc # None /\ exc[1].type = "ValueError"


\* C14: the dict snapshot() returned is insulated from later calls: the
\* timeline entries a reader finds in it are the entries as they were when
\* snapshot() returned (status and the other scalars are held by value, and no
\* call changes a conversation entry once it is appended).
SnapshotInsulated ==
    snap # None => EntriesOf(snap[1]) = snap[1].timeline

\* C15: a reader of a dict returned by snapshot(), with another thread calling
\* stage_start, stage_end and add_message, never finds a timeline entry that is
\* half updated: every entry has both end and duration or neither.
NoPartialEntry ==
    snap # None =>
       \A i \in DOMAIN EntriesOf(snap[1]) :
          (EntriesOf(snap[1])[i].end = None) <=> (EntriesOf(snap[1])[i].duration = None)

\* C16: when a call of run_requirement_pipeline has returned, by any of its
\* paths, every entry of the tracker's timeline has an end not before its start
\* and the duration end - start.
TimelineEntriesClosed ==
    HasReturned =>
       \A i \in DOMAIN timeline :
          /\ timeline[i].end # None
          /\ timeline[i].end[1] >= timeline[i].start
          /\ timeline[i].duration = Some(timeline[i].end[1] - timeline[i].start)

\* C16 witness: a run returned after a stage raised, with an entry that took time
ReturnedWithTimedEntries ==
    /\ HasReturned
    /\ \E s \in Stages : RaisedIn(s)
    /\ \E i \in DOMAIN timeline : timeline[i].duration = Some(1)

\* name is not the stage of the last timeline entry
Mismatch(name) == timeline = << >> \/ timeline[Len(timeline)].stage # name

\* C17: stage_end(name) with a name that is not the last entry's stage changes
\* no timeline entry, in either half of the call, and when it returns
\* current_stage is None and the stage span is closed.
StageEndMismatchIgnored ==
    [][ /\ (cpc = "idle" /\ cpc' = "stage_end.duration" /\ Mismatch(ccall'[1].name))
             => timeline' = timeline
        /\ (cpc = "stage_end.duration" /\ cpc' = "idle" /\ Mismatch(ccall[1].name))
             => /\ timeline' = timeline
                /\ current_stage' = None
                /\ stage_span' = None ]_vars

\* C17 witness: stage_end returned, called with another name than that of the
\* open last entry
MismatchedStageEndReturned ==
    /\ cpc = "idle" /\ ccall # None /\ ccall[1].op = "stage_end"
    /\ timeline # << >> /\ Mismatch(ccall[1].name)
    /\ timeline[Len(timeline)].end = None
    /\ current_stage = None /\ stage_span = None

\* C18: every conversation entry holds a content of at most MessageLimit
\* characters and the truncation mark.
MessagesBounded ==
    \A i \in DOMAIN conversation : conversation[i].content.len <= MessageLimit + 1

\* C19: every preview held in a timeline entry has at most PreviewLimit
\* characters and the truncation mark.
PreviewsBounded ==
    \A i \in DOMAIN timeline :
       timeline[i].preview # None => timeline[i].preview[1].len <= PreviewLimit + 1

\* C20: finish_run(status) called while a stage is open leaves status as given,
\* current_stage None, the stage span closed and no timeline entry without end.
FinishRunClosesStage ==
    [][ (stage_span # None /\ ccall' # None /\ ccall'[1].op = "finish_run")
           => /\ status' = ccall'[1].name
              /\ current_stage' = None
              /\ stage_span' = None
              /\ \A i \in DOMAIN timeline' : timeline'[i].end # None ]_vars

\* the closed entries of the tracker's timeline for stage s
TrackedEntries(s) ==
    {i \in DOMAIN timeline : timeline[i].stage = s /\ timeline[i].end # None}

\* C21: when a call of run_requirement_pipeline has returned, every stage it
\* executed, commit_and_push and open_pull_request included, has exactly one
\* closed entry in the tracker's timeline, whether or not verbose or stream was
\* requested.
EveryExecutedStageTracked ==
    HasReturned =>
       \A k \in DOMAIN FullOrder :
          StartedIn(FullOrder[k]) => Cardinality(TrackedEntries(FullOrder[k])) = 1

\* C22: the timeline key of a returned result is a list exactly when verbose
\* or stream was requested and None otherwise, on the load-error return, the
\* normal return and the exception return; the tracker's own timeline has the
\* entries of the stages that ran in both cases.
ResultTimelineIffVerbose ==
    HasReturned =>
       /\ result[1].timeline # None <=> (verbose \/ stream)
       /\ result[1].timeline # None => result[1].timeline = Some(timeline_local)
       /\ \A s \in Stages : StartedIn(s) => TrackedEntries(s) # {}
       /\ ~LoadFailed => timeline # << >>

\* C22 witness: a run without verbose and stream returned after its stages ran:
\* no timeline in the result, five entries in the tracker
QuietRunReturned ==
    /\ HasReturned /\ ~verbose /\ ~stream
    /\ result[1].timeline = None
    /\ Len(timeline) = Len(StageOrder)

\* the condition under which the pipeline opens a pull request: the five
\* wrapped stages and commit_and_push returned, the requirement asks for a PR,
\* and GITHUB_TOKEN was found set
PullRequestDue ==
    /\ \A s \in Stages \cup {"commit_and_push"} : Returned_(s)
    /\ req # None /\ req[1].create_pr
    /\ GITHUB_TOKEN = Some(TRUE)

\* C23: open_pull_request is invoked only when all earlier stages returned,
\* the requirement has create_pr true and GITHUB_TOKEN is set; a run that
\* returned under that condition did invoke it; and while it has not been
\* invoked pr_url is None, in the pipeline and in the result returned.
OpenPullRequestIffDue ==
    /\ StartedIn("open_pull_request") => PullRequestDue
    /\ (HasReturned /\ PullRequestDue) => StartedIn("open_pull_request")
    /\ ~StartedIn("open_pull_request") =>
          /\ pr_url = None
          /\ HasReturned => result[1].pr_url = None

\* C23 witness: a run returned with the URL of the pull request it opened
PullRequestOpened ==
    /\ HasReturned /\ StartedIn("open_pull_request")
    /\ result[1].pr_url = Some("html_url")

\* C24: the keywords of the primary call of _smart_call are parameters the
\* callee declares, each with the value its context slot holds: a parameter
\* whose slot is None is left out, never passed as None.
NoneIsOmitted ==
    (kwargs # None /\ attempt = 0 /\ pc[2] \in {"body", "fallback"}) =>
       /\ DOMAIN kwargs[1] \subseteq Params(pc[1])
       /\ \A p \in DOMAIN kwargs[1] : kwargs[1][p] # None

\* _smart_call(fn, ...) has returned or raised
InvokerDone == pc = <<"fn", "stage_end">>

\* the calls of fn that raised TypeError from the body so far
BodyTypeErrors ==
    {i \in DOMAIN trace : trace[i].ev = "raise" /\ trace[i].exc[1].type = "TypeError"}

\* the calls among the primary (0) and the fallbacks 1..j that bind
BindingCalls(j) == {i \in 0..j : Binds("fn", Kwargs("fn", i))}

\* the primary call was made and raised TypeError
PrimaryMismatch == kwargs # None /\ (attempt > 0 \/ exc = Some(CouldNotMatch("fn")))

\* C25: after a TypeError of the primary call the invoker calls the fallback
\* shapes 1, 2, 3 in that order, each only after every call before it raised
\* TypeError, and returns the result of the first that raises none; when all
\* raised it, the invoker raises a TypeError naming the callee and its
\* signature; it never returns without the result of a call of the callee.
FallbacksInOrder ==
    /\ (pc = <<"fn", "body">> /\ attempt >= 1) =>
          /\ Binds("fn", Kwargs("fn", attempt))
          /\ kwargs = Some(Kwargs("fn", attempt))
          /\ Cardinality(BodyTypeErrors) = Cardinality(BindingCalls(attempt - 1))
    /\ (InvokerDone /\ PrimaryMismatch /\ exc = None) =>
          /\ out = StageValue("fn")
          /\ trace[Len(trace)] = Returned("fn")
          /\ Cardinality(BodyTypeErrors) = Cardinality(BindingCalls(attempt - 1))
    /\ (InvokerDone /\ PrimaryMismatch /\ out = None /\ exc[1].type = "TypeError") =>
          /\ exc = Some(CouldNotMatch("fn"))
          /\ exc[1].message[2] = "fn" /\ exc[1].message[4] = sig
          /\ Cardinality(BodyTypeErrors) = Cardinality(BindingCalls(3))
    /\ (InvokerDone /\ exc = None) => out = StageValue("fn")
    /\ (InvokerDone /\ ~Binds("fn", Kwargs("fn", 0)) /\ kwargs # None) =>
          exc = Some(CouldNotMatch("fn")) /\ trace = << >>

\* C25 witness: the primary call and fallback 1 raised TypeError, fallback 2
\* did not bind, and the invoker returned the result of fallback 3
ThirdFallbackReturned ==
    /\ InvokerDone /\ attempt = 3 /\ exc = None /\ out = StageValue("fn")
    /\ Cardinality(BodyTypeErrors) = 2
    /\ ~Binds("fn", Kwargs("fn", 2))

\* C26: when the callee declares tool_context and runtime.get_agent() returns
\* None, _smart_call raises at once: the callee is not called, by the primary
\* call or by a fallback, and a tool_context is passed only with an Agent.
NoAgentFailsFast ==
    /\ \A s \in Stages :
          (pc[1] = s /\ pc[2] \in {"body", "fallback", "stage_end"}
                     /\ agent = Some(FALSE)) =>
             /\ pc[2] = "stage_end"
             /\ exc = Some(NoAgent)
             /\ kwargs = None /\ attempt = 0 /\ out = None
             /\ ~StartedIn(s)
    /\ (kwargs # None /\ "tool_context" \in DOMAIN kwargs[1]) => agent = Some(TRUE)

\* C26 witness: plan_changes was to be called with no Agent registered
PlanWithoutAgent ==
    /\ pc = <<"plan_changes", "stage_end">>
    /\ agent = Some(FALSE) /\ exc = Some(NoAgent)

\* a call of apply_changes is in progress or has ended
InApplyChanges == pc[1] = "apply_changes" /\ pc[2] \in {"for", "returned", "raised"}

\* how many times x occurs in a list
Count(list, x) == Cardinality({i \in DOMAIN list : list[i] = x})

\* the paths of the edits the loop has gone through
PathsTried == [i \in 1..(ac.k - 1) |-> ac.edits[i].path]

\* C27: no edit makes apply_changes raise; every edit the loop went through
\* put its path once in exactly one of applied and skipped, so the two lists
\* together hold the paths of those edits, each as often as it was tried; a
\* path is in deleted only as often as in applied; and the dict returned is
\* made after all edits were tried, with applied_count = |applied_files|.
EditsAccounted ==
    InApplyChanges =>
       /\ pc[2] # "raised" /\ exc = None
       /\ Len(ac.applied) + Len(ac.skipped) = ac.k - 1
       /\ \A p \in EditPaths :
             /\ Count(ac.applied, p) + Count(ac.skipped, p) = Count(PathsTried, p)
             /\ Count(ac.deleted, p) <= Count(ac.applied, p)
       /\ \A j \in DOMAIN done :
             /\ done[j].ret.applied_count = Len(done[j].ret.applied_files)
             /\ done[j].ret.deleted_count = Len(done[j].ret.deleted_files)
             /\ Len(done[j].ret.applied_files) + Len(done[j].ret.skipped_files)
                   = Len(ac.edits)
             /\ \A i \in DOMAIN done[j].ret.deleted_files :
                   Count(done[j].ret.applied_files, done[j].ret.deleted_files[i]) > 0

\* C27 witness: a call returned after its first edit, a create, failed and was
\* skipped and its second edit was applied
SkippedThenApplied ==
    /\ pc = <<"apply_changes", "returned">>
    /\ Len(ac.edits) = 2 /\ ac.edits[1].action = "create"
    /\ done[1].ret.skipped_files = <<ac.edits[1].path>>
    /\ done[1].ret.applied_files = <<ac.edits[2].path>>

\* the loop of the second call is at a delete of a path that is absent
DeleteOfAbsent ==
    /\ pc = <<"apply_changes", "for">> /\ Len(done) = 1
    /\ ac.k <= Len(ac.edits)
    /\ ac.edits[ac.k].action = "delete"
    /\ ~safe_join(Root, ac.edits[ac.k].path).raised
    /\ ~exists(fs, safe_join(Root, ac.edits[ac.k].path).value)

\* C28: after apply_changes was called twice with the same list, the files and
\* their contents are those the first call left; and in the second call a
\* delete of a path that is absent puts the path in skipped, changes no file
\* and raises nothing.
AppliedTwiceAsOnce ==
    /\ [](Len(done) = 2 =>
            \A n \in Nodes :
               (done[1].fs[n].kind = "file" \/ done[2].fs[n].kind = "file")
                  => done[2].fs[n] = done[1].fs[n])
    /\ [][DeleteOfAbsent =>
            /\ ac'.skipped = Append(ac.skipped, ac.edits[ac.k].path)
            /\ ac'.applied = ac.applied
            /\ fs' = fs /\ exc' = None]_vars

\* the loop is at an edit whose path, joined to the root and normalised, is
\* not the root or below it: an absolute path elsewhere, or one that goes up
\* out of the root
EditLeavesRoot ==
    /\ pc = <<"apply_changes", "for">>
    /\ ac.k <= Len(ac.edits)
    /\ ~UnderBase(abspath(join(Root, ac.edits[ac.k].path)), Root)

\* C29: apply_changes changes nothing outside the repository root: whatever
\* is at a path that is not the root or below it stays what it was before the
\* call; and an edit whose path is absolute or goes up out of the root is put
\* in skipped and changes no file.
NothingOutsideRoot ==
    /\ [](InApplyChanges =>
            \A n \in Nodes : ~UnderBase(n, Root) => fs[n] = fs0[n])
    /\ [][EditLeavesRoot =>
            /\ ac'.skipped = Append(ac.skipped, ac.edits[ac.k].path)
            /\ ac'.applied = ac.applied
            /\ fs' = fs]_vars

\* the edits of the model's output whose action is create, modify or delete
RECURSIVE Supported(_)
Supported(output) ==
    IF output = << >> THEN << >>
    ELSE IF Head(output).action \in ActionLiteral
    THEN <<Head(output)>> \o Supported(Tail(output))
    ELSE Supported(Tail(output))

\* C30: when the model's output has an edit whose action is not create,
\* modify or delete, generate_changes does not raise, and it returns the
\* other edits of the output, as many and in the same order.
UnsupportedActionDropped ==
    (pc[1] = "generate_changes" /\ pc[2] \in {"for", "raised", "returned"}
        /\ \E i \in DOMAIN gen.output : gen.output[i].action = "rename") =>
       /\ pc[2] # "raised" /\ exc = None
       /\ pc[2] = "returned" =>
             /\ Len(out[1]) = Len(Supported(gen.output))
             /\ \A i \in DOMAIN out[1] :
                   out[1][i].action = Supported(gen.output)[i].action

\* the pipeline is at a call of observability.add_message
AtAddMessage == pc[2] \in {"add_message", "completed"}

\* the first n entries of list
Prefix(list, n) == SubSeq(list, 1, n)

\* C31: in every step of a run other than the reset inside start_run, the
\* timeline and the conversation keep their entries in place: no list gets
\* shorter, the entries before the last are unchanged and the last keeps its
\* stage and start; stage_start appends one entry to the timeline and
\* add_message one to the conversation, and they leave the other list alone.
ListsAppendOnly ==
    [][ pc # <<"run", "start_run.reset">> =>
          /\ Len(timeline') >= Len(timeline)
          /\ Prefix(timeline', Len(timeline) - 1) = Prefix(timeline, Len(timeline) - 1)
          /\ timeline # << >> =>
                /\ timeline'[Len(timeline)].stage = timeline[Len(timeline)].stage
                /\ timeline'[Len(timeline)].start = timeline[Len(timeline)].start
          /\ Prefix(conversation', Len(conversation)) = conversation
          /\ (pc[2] = "stage_start" /\ pc' # pc) =>
                /\ Len(timeline') = Len(timeline) + 1
                /\ Prefix(timeline', Len(timeline)) = timeline
                /\ timeline'[Len(timeline')].stage = pc[1]
                /\ conversation' = conversation
          /\ (AtAddMessage /\ pc' # pc) =>
                /\ Len(conversation') = Len(conversation) + 1
                /\ timeline' = timeline ]_vars

\* C31 witness: a second stage was started after the first was closed, with
\* the messages of both in the conversation
SecondStageStarted ==
    /\ Len(timeline) >= 2
    /\ timeline[1].end # None
    /\ timeline[Len(timeline)].end = None
    /\ Len(conversation) >= 4

\* the pipeline is at a call of observability.finish_run
AtFinishRun == pc[2] = "finish_run"

\* start_run has returned in the run in progress and finish_run was not called
BetweenStartAndFinish ==
    pc \notin {Idle, <<"run", "start_run">>, <<"run", "start_run.reset">>,
               <<"finish", "add_message">>}

LockNeverReacquired ==
    /\ pc = <<"run", "start_run.reset">> => lock # "pipeline"
    /\ cpc = "start_run.reset" => lock # "client"

\* the number of times the body of s was entered in this run
BodyStarts(s) == Cardinality({i \in DOMAIN trace : trace[i] = Started(s)})

\* C35: in a run the body of each stage function is entered at most once, and
\* the invoker is at its fallback calls for a stage only when the body of
\* that stage has not been entered.
BodyRunsOnce ==
    \A s \in Stages :
       /\ BodyStarts(s) <= 1
       /\ pc = <<s, "fallback">> => BodyStarts(s) = 0

\* the first conjunct of BodyRunsOnce alone, and for the callee of SpecInvoke
StageBodyRunsOnce == \A s \in Stages \cup {"fn"} : BodyStarts(s) <= 1

\* build_and_test returned a non-zero exit status in this run
BuildFailed == test_result # None /\ test_result[1].status # 0

\* C36: after build_and_test returned a non-zero exit status the pipeline goes
\* on: commit_and_push is called next, open_pull_request is called when the
\* requirement asks for a PR and GITHUB_TOKEN is set, and a run in which
\* neither of them raised returns status error, where None and the pr_url
\* open_pull_request gave.
FailedBuildGoesOn ==
    BuildFailed =>
       /\ pc # <<"commit_and_push", "call">> => StartedIn("commit_and_push")
       /\ (HasReturned /\ PullRequestDue) => StartedIn("open_pull_request")
       /\ (HasReturned /\ \A i \in DOMAIN trace : trace[i].ev # "raise") =>
             /\ result[1].status = "error"
             /\ result[1].where = None
             /\ result[1].pr_url = pr_url

\* C36 witness: a run whose build ended with exit status 1 returned status
\* error, where None and the URL of the pull request it opened
FailedBuildWithPullRequest ==
    /\ HasReturned /\ BuildFailed
    /\ result[1].status = "error" /\ result[1].where = None
    /\ result[1].test_exit_code = Some(1)
    /\ result[1].pr_url = Some("html_url")

\* finish_run was called in the run and start_run was not called since
AfterFinishRun == HasReturned \/ pc \in {<<"finish", "add_message">>, <<"run", "start_run">>}

\* C37: when run_requirement_pipeline has returned, by any of its three
\* paths, the tracker's status is the status of the result and current_stage
\* is None; from finish_run until the next start_run no step changes the
\* status or current_stage, and the step after finish_run on the completed
\* path appends a message.
StatusSettledAtReturn ==
    /\ [](HasReturned => (status = result[1].status /\ current_stage = None))
    /\ [][ (AfterFinishRun /\ runs > 0) =>
              /\ status' = status
              /\ current_stage' = current_stage
              /\ (pc = <<"finish", "add_message">> /\ pc' # pc) =>
                    Len(conversation') = Len(conversation) + 1 ]_vars

\* C37 witness: a run returned success; the last message was appended after
\* finish_run had set the status
ReturnedAfterLastMessage ==
    /\ HasReturned
    /\ status = "success" /\ result[1].status = "success"
    /\ conversation[Len(conversation)].content = <<"run finished", "success">>

\* entry i of the timeline was closed by a stage_end that returned
Closed(i) == timeline[i].end # None /\ timeline[i].duration # None

\* the step is the reset() inside a start_run
ResetStep == pc = <<"run", "start_run.reset">> \/ cpc = "start_run.reset"

\* the step is one of the two halves of a call stage_end(name, ...)
StageEndStep(name) ==
    \/ cpc = "idle" /\ cpc' = "stage_end.duration" /\ ccall'[1].name = name
    \/ cpc = "stage_end.duration" /\ cpc' = "idle" /\ ccall[1].name = name

OpenEntries == {i \in DOMAIN timeline : timeline[i].end = None}

\* C39: at every point of a run, current_stage is not None exactly when the
\* last timeline entry is open, and then it is that entry's stage; no entry
\* other than the last is open.
CurrentStageIsTheOpenEntry ==
    /\ OpenEntries \subseteq {Len(timeline)}
    /\ current_stage # None <=> OpenEntries # {}
    /\ current_stage # None => current_stage = Some(timeline[Len(timeline)].stage)

\* C39 witness: the run is in the body of its fourth stage; the three entries
\* before it are closed
FourthStageOpen ==
    /\ pc = <<"apply_changes", "body">>
    /\ current_stage = Some("apply_changes")
    /\ OpenEntries = {4}

====
